---------------------------- MODULE Spec2Model ----------------------------
(***************************************************************************)
(* Model of the swing-trade scoring subsystem:                             *)
(*   technical_analysis.py   TechnicalAnalyzer                             *)
(*   fundamental_analysis.py FundamentalAnalyzer                           *)
(*   scoring_engine.py       ScoringEngine                                 *)
(*                                                                         *)
(* Number representation.  All quantities are integers in a fixed unit:    *)
(*   scores              hundredths of a point  (50.00 -> 5000)            *)
(*   unrounded overall   thousandths of a point (62.0  -> 62000)           *)
(*   signal weights      halves                 (2.5   -> 5)               *)
(*   blending weights    tenths                 (0.6   -> 6)               *)
(*   RSI, %K, prices, volumes  units;  MACD  tenths                        *)
(*   margins, growth, ROE, ROA hundredths (0.15 -> 15)                     *)
(*   debt/equity, current ratio tenths    (1.5  -> 15)                     *)
(* A comparison with a threshold is made in the unit of the value, so it   *)
(* is exact.                                                               *)
(***************************************************************************)
EXTENDS Integers, Sequences, FiniteSets, TLC

VARIABLES
    provider,   \* what the DataFetcher yields per symbol
    op,         \* the call being made, with its arguments
    ret,        \* what the call returned or raised; NotCalled before it
    db          \* the rows of the StockDatabase holdings table

vars == <<provider, op, ret, db>>

(***************************************************************************)
(* Python values                                                           *)
(***************************************************************************)

\* float('nan') / a missing cell: every ordering comparison with it is False
NaN == -1000000

\* Python None as a dict value or an argument
None == -2000000

isna(v) == v = NaN \/ v = None

\* x < y, x > y, x <= y, x >= y on floats: False when either side is NaN
LT(x, y) == ~isna(x) /\ ~isna(y) /\ x < y
GT(x, y) == ~isna(x) /\ ~isna(y) /\ x > y
LE(x, y) == ~isna(x) /\ ~isna(y) /\ x <= y
GE(x, y) == ~isna(x) /\ ~isna(y) /\ x >= y

\* dict.get(key, default)
Get(d, key, default) == IF key \in DOMAIN d THEN d[key] ELSE default

\* A rounding that drops the digits after the second decimal instead
Round2_truncating(num, den) == (100 * num) \div den

\* round(x, 2) of the exact value num/den points (den > 0), in hundredths:
\* correctly rounded, ties to even
Round2(num, den) ==
    LET n100 == 100 * num
        q == n100 \div den
        r == n100 % den
    IN  IF 2 * r < den THEN q
        ELSE IF 2 * r > den THEN q + 1
        ELSE IF q % 2 = 0 THEN q ELSE q + 1

(***************************************************************************)
(* config.py                                                               *)
(***************************************************************************)
RSI_OVERSOLD == 30
RSI_OVERBOUGHT == 70
\* VOLUME_SPIKE_THRESHOLD = 1.5, in halves
VOLUME_SPIKE_THRESHOLD == 3
\* TECHNICAL_WEIGHT = 0.6 and FUNDAMENTAL_WEIGHT = 0.4, in tenths
TECHNICAL_WEIGHT == 6
FUNDAMENTAL_WEIGHT == 4
MIN_BUY_SCORE == 60
MAX_SELL_SCORE == 40

(***************************************************************************)
(* technical_analysis.py                                                   *)
(*                                                                         *)
(* A DataFrame is modelled by what the classifier reads of it:             *)
(*   rows        len(df)                                                   *)
(*   cols        the derived columns present (OHLCV are always there)      *)
(*   Close, Volume, and the derived cells of the latest row (df.iloc[-1])  *)
(*   prev_macd, prev_macd_signal   the cells of df.iloc[-2]                *)
(*   first_close, mean_close       of the trailing 20 rows                 *)
(* A cell of a column that is not in cols is never read.                   *)
(***************************************************************************)
DerivedCols == {"rsi", "macd", "macd_signal", "macd_histogram",
                "sma_20", "sma_50", "sma_200",
                "bb_upper", "bb_middle", "bb_lower",
                "volume_sma_20", "stoch_k", "stoch_d", "atr", "obv"}

\* latest[col]: raises KeyError when the column is missing
HasCol(df, col) == col \in df.cols

\* latest.get(col): None when the column is missing
Cell(df, col) == IF col \in df.cols THEN df.latest[col] ELSE None

\* An RSI classifier whose oversold and overbought ends are inclusive
_analyze_rsi_inclusive(rsi) ==
    IF isna(rsi) THEN [value |-> None, signal |-> "neutral", strength |-> 0]
    ELSE IF rsi <= RSI_OVERSOLD
         THEN [value |-> rsi, signal |-> "bullish", strength |-> 2]
    ELSE IF rsi >= RSI_OVERBOUGHT
         THEN [value |-> rsi, signal |-> "bearish", strength |-> -2]
    ELSE IF rsi < 40
         THEN [value |-> rsi, signal |-> "bullish", strength |-> 1]
    ELSE IF rsi > 60
         THEN [value |-> rsi, signal |-> "bearish", strength |-> -1]
    ELSE [value |-> rsi, signal |-> "neutral", strength |-> 0]

_analyze_rsi(rsi) ==
    IF isna(rsi) THEN [value |-> None, signal |-> "neutral", strength |-> 0]
    ELSE IF rsi < RSI_OVERSOLD
         THEN [value |-> rsi, signal |-> "bullish", strength |-> 2]
    ELSE IF rsi > RSI_OVERBOUGHT
         THEN [value |-> rsi, signal |-> "bearish", strength |-> -2]
    ELSE IF rsi < 40
         THEN [value |-> rsi, signal |-> "bullish", strength |-> 1]
    ELSE IF rsi > 60
         THEN [value |-> rsi, signal |-> "bearish", strength |-> -1]
    ELSE [value |-> rsi, signal |-> "neutral", strength |-> 0]

\* A MACD classifier that wants the previous bar strictly on the other side
_analyze_macd_strict_previous(df) ==
    IF isna(Cell(df, "macd")) \/ isna(Cell(df, "macd_signal"))
    THEN [signal |-> "neutral", strength |-> 0]
    ELSE LET macd == df.latest["macd"]
             macd_signal == df.latest["macd_signal"]
             prev_macd == df.prev_macd
             prev_signal == df.prev_macd_signal
         IN  IF LT(prev_macd, prev_signal) /\ GT(macd, macd_signal)
             THEN [signal |-> "bullish", strength |-> 2, crossover |-> "bullish"]
             ELSE IF GT(prev_macd, prev_signal) /\ LT(macd, macd_signal)
             THEN [signal |-> "bearish", strength |-> -2, crossover |-> "bearish"]
             ELSE IF GT(macd, macd_signal)
             THEN [signal |-> "bullish", strength |-> 1, crossover |-> "None"]
             ELSE [signal |-> "bearish", strength |-> -1, crossover |-> "None"]

\* A MACD classifier that takes a latest bar on the signal line for a cross
_analyze_macd_inclusive_latest(df) ==
    IF isna(Cell(df, "macd")) \/ isna(Cell(df, "macd_signal"))
    THEN [signal |-> "neutral", strength |-> 0]
    ELSE LET macd == df.latest["macd"]
             macd_signal == df.latest["macd_signal"]
             prev_macd == df.prev_macd
             prev_signal == df.prev_macd_signal
         IN  IF LE(prev_macd, prev_signal) /\ GE(macd, macd_signal)
             THEN [signal |-> "bullish", strength |-> 2, crossover |-> "bullish"]
             ELSE IF GE(prev_macd, prev_signal) /\ LE(macd, macd_signal)
             THEN [signal |-> "bearish", strength |-> -2, crossover |-> "bearish"]
             ELSE IF GT(macd, macd_signal)
             THEN [signal |-> "bullish", strength |-> 1, crossover |-> "None"]
             ELSE [signal |-> "bearish", strength |-> -1, crossover |-> "None"]

\* previous.get('macd', macd): previous is a row of the same frame, so the
\* default is used only when the column is missing, and then latest.get
\* has already returned None
_analyze_macd(df) ==
    IF isna(Cell(df, "macd")) \/ isna(Cell(df, "macd_signal"))
    THEN [signal |-> "neutral", strength |-> 0]
    ELSE LET macd == df.latest["macd"]
             macd_signal == df.latest["macd_signal"]
             prev_macd == df.prev_macd
             prev_signal == df.prev_macd_signal
         IN  IF LE(prev_macd, prev_signal) /\ GT(macd, macd_signal)
             THEN [signal |-> "bullish", strength |-> 2, crossover |-> "bullish"]
             ELSE IF GE(prev_macd, prev_signal) /\ LT(macd, macd_signal)
             THEN [signal |-> "bearish", strength |-> -2, crossover |-> "bearish"]
             ELSE IF GT(macd, macd_signal)
             THEN [signal |-> "bullish", strength |-> 1, crossover |-> "None"]
             ELSE [signal |-> "bearish", strength |-> -1, crossover |-> "None"]

\* A moving-average classifier whose crosses do not look at the price
_analyze_moving_averages_no_price(df) ==
    LET price == df.Close
        sma_20 == df.latest["sma_20"]
        sma_50 == df.latest["sma_50"]
        sma_200 == df.latest["sma_200"]
    IN  IF isna(sma_20) \/ isna(sma_50) \/ isna(sma_200)
        THEN [signal |-> "neutral", strength |-> 0]
        ELSE IF sma_20 > sma_50 /\ sma_50 > sma_200
        THEN [signal |-> "bullish", strength |-> 2, pattern |-> "golden_cross"]
        ELSE IF sma_20 < sma_50 /\ sma_50 < sma_200
        THEN [signal |-> "bearish", strength |-> -2, pattern |-> "death_cross"]
        ELSE IF price > sma_20 /\ price > sma_50 /\ price > sma_200
        THEN [signal |-> "bullish", strength |-> 1, pattern |-> "above_all"]
        ELSE IF price < sma_20 /\ price < sma_50 /\ price < sma_200
        THEN [signal |-> "bearish", strength |-> -1, pattern |-> "below_all"]
        ELSE [signal |-> "neutral", strength |-> 0, pattern |-> "mixed"]

\* reads latest['sma_20'], latest['sma_50'], latest['sma_200']: the caller
\* checks MaRaises first
_analyze_moving_averages(df) ==
    LET price == df.Close
        sma_20 == df.latest["sma_20"]
        sma_50 == df.latest["sma_50"]
        sma_200 == df.latest["sma_200"]
    IN  IF isna(sma_20) \/ isna(sma_50) \/ isna(sma_200)
        THEN [signal |-> "neutral", strength |-> 0]
        ELSE IF sma_20 > sma_50 /\ sma_50 > sma_200 /\ price > sma_20
        THEN [signal |-> "bullish", strength |-> 2, pattern |-> "golden_cross"]
        ELSE IF sma_20 < sma_50 /\ sma_50 < sma_200 /\ price < sma_20
        THEN [signal |-> "bearish", strength |-> -2, pattern |-> "death_cross"]
        ELSE IF price > sma_20 /\ price > sma_50 /\ price > sma_200
        THEN [signal |-> "bullish", strength |-> 1, pattern |-> "above_all"]
        ELSE IF price < sma_20 /\ price < sma_50 /\ price < sma_200
        THEN [signal |-> "bearish", strength |-> -1, pattern |-> "below_all"]
        ELSE [signal |-> "neutral", strength |-> 0, pattern |-> "mixed"]

\* A band classifier that counts a price on the middle band as lower half
_analyze_bollinger_bands_middle_inclusive(df) ==
    LET price == df.Close
        bb_upper == Cell(df, "bb_upper")
        bb_lower == Cell(df, "bb_lower")
        bb_middle == Cell(df, "bb_middle")
    IN  IF isna(bb_upper) \/ isna(bb_lower)
        THEN [signal |-> "neutral", strength |-> 0]
        ELSE IF price < bb_lower
        THEN [signal |-> "bullish", strength |-> 2, position |-> "below_lower"]
        ELSE IF price > bb_upper
        THEN [signal |-> "bearish", strength |-> -2, position |-> "above_upper"]
        ELSE IF LE(price, bb_middle)
        THEN [signal |-> "bullish", strength |-> 1, position |-> "lower_half"]
        ELSE [signal |-> "bearish", strength |-> -1, position |-> "upper_half"]

\* bb_middle is compared without an isna test: a NaN middle compares False
_analyze_bollinger_bands(df) ==
    LET price == df.Close
        bb_upper == Cell(df, "bb_upper")
        bb_lower == Cell(df, "bb_lower")
        bb_middle == Cell(df, "bb_middle")
    IN  IF isna(bb_upper) \/ isna(bb_lower)
        THEN [signal |-> "neutral", strength |-> 0]
        ELSE IF price < bb_lower
        THEN [signal |-> "bullish", strength |-> 2, position |-> "below_lower"]
        ELSE IF price > bb_upper
        THEN [signal |-> "bearish", strength |-> -2, position |-> "above_upper"]
        ELSE IF LT(price, bb_middle)
        THEN [signal |-> "bullish", strength |-> 1, position |-> "lower_half"]
        ELSE [signal |-> "bearish", strength |-> -1, position |-> "upper_half"]

\* A volume classifier that grades a spike and a drought as strong signals
_analyze_volume_strong(df) ==
    LET volume == df.Volume
        volume_sma == Cell(df, "volume_sma_20")
    IN  IF isna(volume_sma)
        THEN [signal |-> "neutral", strength |-> 0]
        ELSE IF 2 * volume > VOLUME_SPIKE_THRESHOLD * volume_sma
        THEN [signal |-> "bullish", strength |-> 2]
        ELSE IF 10 * volume < 7 * volume_sma
        THEN [signal |-> "bearish", strength |-> -2]
        ELSE [signal |-> "neutral", strength |-> 0]

\* A volume classifier that reports a spike as strength without direction
_analyze_volume_undirected(df) ==
    LET volume == df.Volume
        volume_sma == Cell(df, "volume_sma_20")
    IN  IF isna(volume_sma)
        THEN [signal |-> "neutral", strength |-> 0]
        ELSE IF 2 * volume > VOLUME_SPIKE_THRESHOLD * volume_sma
        THEN [signal |-> "neutral", strength |-> 1]
        ELSE IF 10 * volume < 7 * volume_sma
        THEN [signal |-> "neutral", strength |-> -1]
        ELSE [signal |-> "neutral", strength |-> 0]

\* volume_ratio = volume / volume_sma, compared with 1.5 and 0.7; volumes
\* are >= 0, and a zero average gives inf (volume > 0) or nan (volume = 0),
\* which the cross-multiplied comparisons classify alike
_analyze_volume(df) ==
    LET volume == df.Volume
        volume_sma == Cell(df, "volume_sma_20")
    IN  IF isna(volume_sma)
        THEN [signal |-> "neutral", strength |-> 0]
        ELSE IF 2 * volume > VOLUME_SPIKE_THRESHOLD * volume_sma
        THEN [signal |-> "bullish", strength |-> 1]
        ELSE IF 10 * volume < 7 * volume_sma
        THEN [signal |-> "bearish", strength |-> -1]
        ELSE [signal |-> "neutral", strength |-> 0]

\* the trailing window of the trend
periods == 20

\* trend_strength = ((last - first) / periods / mean) * 100, mean > 0:
\* t > c/10 percent  <=>  1000 * (last - first) > c * periods * mean
TrendAbove(df, c10) ==
    1000 * (df.Close - df.first_close) > c10 * periods * df.mean_close
TrendBelow(df, c10) ==
    1000 * (df.Close - df.first_close) < c10 * periods * df.mean_close

_analyze_trend(df) ==
    IF df.rows < periods THEN [signal |-> "neutral", strength |-> 0]
    ELSE IF TrendAbove(df, 10)
    THEN [signal |-> "bullish", strength |-> 2]
    ELSE IF TrendAbove(df, 2)
    THEN [signal |-> "bullish", strength |-> 1]
    ELSE IF TrendBelow(df, -10)
    THEN [signal |-> "bearish", strength |-> -2]
    ELSE IF TrendBelow(df, -2)
    THEN [signal |-> "bearish", strength |-> -1]
    ELSE [signal |-> "neutral", strength |-> 0]

\* An oscillator classifier that reads %K alone
_analyze_stochastic_k_only(df) ==
    LET stoch_k == Cell(df, "stoch_k")
        stoch_d == Cell(df, "stoch_d")
    IN  IF isna(stoch_k)
        THEN [signal |-> "neutral", strength |-> 0]
        ELSE IF stoch_k < 20
        THEN [signal |-> "bullish", strength |-> 1, k |-> stoch_k, d |-> stoch_d]
        ELSE IF stoch_k > 80
        THEN [signal |-> "bearish", strength |-> -1, k |-> stoch_k, d |-> stoch_d]
        ELSE [signal |-> "neutral", strength |-> 0, k |-> stoch_k, d |-> stoch_d]

_analyze_stochastic(df) ==
    LET stoch_k == Cell(df, "stoch_k")
        stoch_d == Cell(df, "stoch_d")
    IN  IF isna(stoch_k) \/ isna(stoch_d)
        THEN [signal |-> "neutral", strength |-> 0]
        ELSE IF stoch_k < 20
        THEN [signal |-> "bullish", strength |-> 1, k |-> stoch_k, d |-> stoch_d]
        ELSE IF stoch_k > 80
        THEN [signal |-> "bearish", strength |-> -1, k |-> stoch_k, d |-> stoch_d]
        ELSE [signal |-> "neutral", strength |-> 0, k |-> stoch_k, d |-> stoch_d]

\* Weights that treat every sub-signal alike
weights_uniform == [rsi_signal |-> 2, macd_signal |-> 2, ma_signal |-> 2,
                    bb_signal |-> 2, volume_signal |-> 2, trend_signal |-> 2,
                    stoch_signal |-> 2]

\* the weights dict of _calculate_technical_score, in halves
weights == [rsi_signal |-> 4, macd_signal |-> 5, ma_signal |-> 4,
            bb_signal |-> 3, volume_signal |-> 2, trend_signal |-> 4,
            stoch_signal |-> 2]

SignalNames == DOMAIN weights

RECURSIVE SumOver(_, _)
\* sum of f[x] over the finite set S
SumOver(f, S) ==
    IF S = {} THEN 0
    ELSE LET x == CHOOSE y \in S : TRUE
         IN  f[x] + SumOver(f, S \ {x})

\* An aggregation that falls back to 0, not 50, when no signal contributes
_calculate_technical_score_zero_default(signals) ==
    LET present == SignalNames \cap DOMAIN signals
        total_strength ==
            SumOver([n \in present |->
                        Get(signals[n], "strength", 0) * weights[n]], present)
        max_possible == SumOver([n \in present |-> 2 * weights[n]], present)
    IN  IF max_possible > 0
        THEN Round2((total_strength + max_possible) * 100, 2 * max_possible)
        ELSE 0

\* signals: a function from the names of the signals that are not None to
\* the signal dicts (signals.get(name) is None for the others).  A signal
\* dict is never empty, so every one in the domain is truthy.
_calculate_technical_score(signals) ==
    LET present == SignalNames \cap DOMAIN signals
        total_strength ==
            SumOver([n \in present |->
                        Get(signals[n], "strength", 0) * weights[n]], present)
        max_possible == SumOver([n \in present |-> 2 * weights[n]], present)
    IN  IF max_possible > 0
        THEN Round2((total_strength + max_possible) * 100, 2 * max_possible)
        ELSE 5000


\* generate_technical_signals(df).  df is None or empty: the error dict.
\* latest['rsi'] and, in _analyze_moving_averages, latest['sma_20'],
\* latest['sma_50'], latest['sma_200'] are subscript reads of the row:
\* a missing column raises KeyError.  The other columns are read with
\* latest.get.  stoch_signal is None unless the row has a stoch_k column.
RsiRaises(df) == ~HasCol(df, "rsi")
MaRaises(df) == ~(HasCol(df, "sma_20") /\ HasCol(df, "sma_50")
                    /\ HasCol(df, "sma_200"))

TechSignals(df) ==
    LET base == [rsi_signal |-> _analyze_rsi(df.latest["rsi"]),
                 macd_signal |-> _analyze_macd(df),
                 ma_signal |-> _analyze_moving_averages(df),
                 bb_signal |-> _analyze_bollinger_bands(df),
                 volume_signal |-> _analyze_volume(df),
                 trend_signal |-> _analyze_trend(df)]
    IN  IF HasCol(df, "stoch_k")
        THEN base @@ [stoch_signal |-> _analyze_stochastic(df)]
        ELSE base

\* str(KeyError(col)) of the first subscript read that fails
MissingCol(df) ==
    IF ~HasCol(df, "rsi") THEN "'rsi'"
    ELSE IF ~HasCol(df, "sma_20") THEN "'sma_20'"
    ELSE IF ~HasCol(df, "sma_50") THEN "'sma_50'"
    ELSE "'sma_200'"

generate_technical_signals(df) ==
    IF df.rows = 0 THEN [kind |-> "error", error |-> "No data available"]
    ELSE IF RsiRaises(df) \/ MaRaises(df)
    THEN [kind |-> "raise", exc |-> "KeyError", msg |-> MissingCol(df)]
    ELSE LET signals == TechSignals(df)
         IN  [kind |-> "ok",
              score |-> _calculate_technical_score(signals),
              signals |-> signals,
              current_price |-> df.Close]

(***************************************************************************)
(* The frames the technical classifier is run on: every combination of     *)
(* one input per sub-indicator, each sub-indicator ranging over inputs     *)
(* that reach each branch of its classifier, plus the same frames with     *)
(* derived columns removed.                                                *)
(***************************************************************************)
\* every frame has Close = 100 and Volume = 1000 in its last row

\* one input per branch of _analyze_rsi that reads a number
RsiInputs == {25, 35, 50, 65, 75}

\* <<macd, macd_signal, prev_macd, prev_macd_signal>>, tenths
MacdInputs == {<<NaN, NaN, NaN, NaN>>,
               <<2, 1, -5, -3>>,     \* the bullish crossover of the spec
               <<-2, -1, 5, 3>>,     \* bearish crossover
               <<2, 1, 3, 1>>,       \* above the signal line
               <<-2, -1, -3, -1>>}   \* below the signal line

\* <<sma_20, sma_50, sma_200>> around Close = 100
MaInputs == {<<95, 90, 85>>,         \* golden cross
             <<105, 110, 115>>,      \* death cross
             <<95, 97, 99>>,         \* above all
             <<105, 103, 101>>,      \* below all
             <<95, 105, 100>>}       \* mixed

\* <<bb_upper, bb_middle, bb_lower>> around Close = 100
BbInputs == {<<NaN, NaN, NaN>>,
             <<120, 110, 105>>,      \* below the lower band
             <<95, 90, 85>>,         \* above the upper band
             <<115, 105, 95>>,       \* lower half
             <<105, 95, 85>>}        \* upper half

\* volume_sma_20 against Volume = 1000
VolumeInputs == {500, 1000, 2000}

\* <<rows, first_close, mean_close>> against Close = 100
TrendInputs == {<<250, 70, 85>>,     \* +1.76 percent per bar
                <<250, 92, 96>>,     \* +0.42
                <<250, 130, 115>>,   \* -1.30
                <<250, 108, 104>>,   \* -0.38
                <<250, 100, 100>>}   \* flat

\* <<stoch_k, stoch_d>>; None: the library returned no oscillator
StochInputs == {<<None, None>>, <<10, 15>>, <<90, 85>>, <<50, 50>>}

\* per sub-indicator, an input with the value missing and one with it there
RsiGaps == {NaN, 25}
MacdGaps == {<<NaN, NaN, NaN, NaN>>, <<2, 1, NaN, NaN>>, <<-2, -1, 5, 3>>}
MaGaps == {<<NaN, NaN, NaN>>, <<95, 90, NaN>>, <<105, 110, 115>>}
BbGaps == {<<NaN, NaN, NaN>>, <<115, NaN, 95>>, <<120, 110, 105>>}
VolumeGaps == {NaN, 500}
TrendGaps == {<<1, 100, 100>>, <<19, 70, 85>>, <<20, 70, 85>>}
StochGaps == {<<None, None>>, <<NaN, NaN>>, <<10, NaN>>, <<10, 15>>}

MkFrame(rsi, m, ma, bb, vs, tr, st) ==
    [rows |-> tr[1],
     cols |-> IF st[1] = None THEN DerivedCols \ {"stoch_k", "stoch_d"}
              ELSE DerivedCols,
     Close |-> 100,
     Volume |-> 1000,
     first_close |-> tr[2],
     mean_close |-> tr[3],
     prev_macd |-> IF tr[1] = 1 THEN m[1] ELSE m[3],
     prev_macd_signal |-> IF tr[1] = 1 THEN m[2] ELSE m[4],
     latest |-> [c \in DerivedCols |->
                    CASE c = "rsi" -> rsi
                      [] c = "macd" -> m[1]
                      [] c = "macd_signal" -> m[2]
                      [] c = "macd_histogram" ->
                            IF isna(m[1]) \/ isna(m[2]) THEN NaN
                            ELSE m[1] - m[2]
                      [] c = "sma_20" -> ma[1]
                      [] c = "sma_50" -> ma[2]
                      [] c = "sma_200" -> ma[3]
                      [] c = "bb_upper" -> bb[1]
                      [] c = "bb_middle" -> bb[2]
                      [] c = "bb_lower" -> bb[3]
                      [] c = "volume_sma_20" -> vs
                      [] c = "stoch_k" -> st[1]
                      [] c = "stoch_d" -> st[2]
                      [] OTHER -> NaN]]

\* calculate_all_indicators.  The indicator library (pandas_ta) is not part
\* of the repository: df.latest holds the cells it computes for this price
\* series, and fail names the step at which it raises ("none": it never
\* does).  The steps run inside one try block, in this order; the except
\* clause logs and the frame built so far is returned.
Steps == <<"rsi", "macd", "sma_20", "sma_50", "sma_200", "bb",
           "volume_sma_20", "stoch", "atr", "obv">>

StepSet == {Steps[i] : i \in 1..Len(Steps)}

StepIndex(step) ==
    IF step = "none" THEN Len(Steps) + 1
    ELSE CHOOSE i \in 1..Len(Steps) : Steps[i] = step

\* the columns a completed step assigns; macd, bbands and stoch may return
\* None (too few rows), and then their columns are not assigned
StepCols(df, step) ==
    CASE step = "macd" ->
            IF df.latest["macd"] = None THEN {}
            ELSE {"macd", "macd_signal", "macd_histogram"}
      [] step = "bb" ->
            IF df.latest["bb_upper"] = None THEN {}
            ELSE {"bb_upper", "bb_middle", "bb_lower"}
      [] step = "stoch" ->
            IF df.latest["stoch_k"] = None THEN {}
            ELSE {"stoch_k", "stoch_d"}
      [] OTHER -> {step}

calculate_all_indicators(df, fail) ==
    IF df.rows = 0 THEN df
    ELSE [df EXCEPT !.cols =
            df.cols \cup UNION {StepCols(df, Steps[i]) :
                                  i \in 1..(StepIndex(fail) - 1)}]

\* A call whose column assignments land in the caller's frame
CallerFrame_aliased(df, fail) == calculate_all_indicators(df, fail)

\* The caller's frame after calculate_all_indicators(df): the method rebinds
\* df to df.copy() before the first column assignment, so every assignment
\* goes to the copy
CallerFrame(df, fail) == df

\* a price series as the caller supplies it: OHLCV only
Strip(df) == [df EXCEPT !.cols = {}]

\* the empty DataFrame
EmptyFrame == [MkFrame(NaN, <<NaN, NaN, NaN, NaN>>, <<NaN, NaN, NaN>>,
                       <<NaN, NaN, NaN>>, NaN, <<1, 100, 100>>,
                       <<NaN, NaN>>)
                 EXCEPT !.rows = 0, !.cols = {}]

\* what calculate_all_indicators leaves of a price series when the library
\* raised at a step
PartialFrame(rsi, tr, step) ==
    calculate_all_indicators(
        Strip(MkFrame(rsi, <<2, 1, -5, -3>>, <<95, 90, 85>>,
                      <<115, 105, 95>>, 2000, tr, <<10, 15>>)),
        step)

NotCalled == [kind |-> "none"]

(***************************************************************************)
(* fundamental_analysis.py                                                 *)
(***************************************************************************)

\* Benchmarks that weigh every metric alike
benchmarks_equal_weights ==
    [pe_ratio |-> [good |-> 15, acceptable |-> 25, weight |-> 2],
     profit_margin |-> [good |-> 15, acceptable |-> 8, weight |-> 2],
     debt_to_equity |-> [good |-> 5, acceptable |-> 15, weight |-> 2],
     revenue_growth |-> [good |-> 15, acceptable |-> 5, weight |-> 2],
     return_on_equity |-> [good |-> 15, acceptable |-> 8, weight |-> 2],
     return_on_assets |-> [good |-> 8, acceptable |-> 4, weight |-> 2],
     current_ratio |-> [good |-> 20, acceptable |-> 10, weight |-> 2],
     earnings_growth |-> [good |-> 15, acceptable |-> 5, weight |-> 2],
     operating_margin |-> [good |-> 15, acceptable |-> 8, weight |-> 2]]

\* self.benchmarks; weight in halves
benchmarks ==
    [pe_ratio |-> [good |-> 15, acceptable |-> 25, weight |-> 4],
     profit_margin |-> [good |-> 15, acceptable |-> 8, weight |-> 4],
     debt_to_equity |-> [good |-> 5, acceptable |-> 15, weight |-> 3],
     revenue_growth |-> [good |-> 15, acceptable |-> 5, weight |-> 4],
     return_on_equity |-> [good |-> 15, acceptable |-> 8, weight |-> 4],
     return_on_assets |-> [good |-> 8, acceptable |-> 4, weight |-> 3],
     current_ratio |-> [good |-> 20, acceptable |-> 10, weight |-> 2],
     earnings_growth |-> [good |-> 15, acceptable |-> 5, weight |-> 4],
     operating_margin |-> [good |-> 15, acceptable |-> 8, weight |-> 3]]

MetricNames == DOMAIN benchmarks

\* A P/E classifier whose two bullish grades are the wrong way round
_analyze_pe_ratio_grades_swapped(pe_ratio) ==
    IF pe_ratio = None \/ pe_ratio <= 0
    THEN [signal |-> "neutral", strength |-> 0, value |-> pe_ratio]
    ELSE IF pe_ratio < benchmarks["pe_ratio"].good
    THEN [signal |-> "bullish", strength |-> 1, value |-> pe_ratio]
    ELSE IF pe_ratio < benchmarks["pe_ratio"].acceptable
    THEN [signal |-> "bullish", strength |-> 2, value |-> pe_ratio]
    ELSE IF pe_ratio < 35
    THEN [signal |-> "neutral", strength |-> 0, value |-> pe_ratio]
    ELSE [signal |-> "bearish", strength |-> -1, value |-> pe_ratio]

_analyze_pe_ratio(pe_ratio) ==
    IF pe_ratio = None \/ pe_ratio <= 0
    THEN [signal |-> "neutral", strength |-> 0, value |-> pe_ratio]
    ELSE IF pe_ratio < benchmarks["pe_ratio"].good
    THEN [signal |-> "bullish", strength |-> 2, value |-> pe_ratio]
    ELSE IF pe_ratio < benchmarks["pe_ratio"].acceptable
    THEN [signal |-> "bullish", strength |-> 1, value |-> pe_ratio]
    ELSE IF pe_ratio < 35
    THEN [signal |-> "neutral", strength |-> 0, value |-> pe_ratio]
    ELSE [signal |-> "bearish", strength |-> -1, value |-> pe_ratio]

_analyze_profit_margin(margin) ==
    IF margin = None
    THEN [signal |-> "neutral", strength |-> 0, value |-> margin]
    ELSE IF margin >= benchmarks["profit_margin"].good
    THEN [signal |-> "bullish", strength |-> 2, value |-> margin]
    ELSE IF margin >= benchmarks["profit_margin"].acceptable
    THEN [signal |-> "bullish", strength |-> 1, value |-> margin]
    ELSE IF margin >= 3
    THEN [signal |-> "neutral", strength |-> 0, value |-> margin]
    ELSE [signal |-> "bearish", strength |-> -1, value |-> margin]

_analyze_debt_to_equity(debt_to_equity) ==
    IF debt_to_equity = None
    THEN [signal |-> "neutral", strength |-> 0, value |-> debt_to_equity]
    ELSE IF debt_to_equity <= benchmarks["debt_to_equity"].good
    THEN [signal |-> "bullish", strength |-> 2, value |-> debt_to_equity]
    ELSE IF debt_to_equity <= benchmarks["debt_to_equity"].acceptable
    THEN [signal |-> "bullish", strength |-> 1, value |-> debt_to_equity]
    ELSE IF debt_to_equity <= 25
    THEN [signal |-> "neutral", strength |-> 0, value |-> debt_to_equity]
    ELSE [signal |-> "bearish", strength |-> -1, value |-> debt_to_equity]

_analyze_growth_metric(growth, metric_name) ==
    IF growth = None
    THEN [signal |-> "neutral", strength |-> 0, value |-> growth]
    ELSE LET benchmark == Get(benchmarks, metric_name,
                              [good |-> 15, acceptable |-> 5])
         IN  IF growth >= benchmark.good
             THEN [signal |-> "bullish", strength |-> 2, value |-> growth]
             ELSE IF growth >= benchmark.acceptable
             THEN [signal |-> "bullish", strength |-> 1, value |-> growth]
             ELSE IF growth >= 0
             THEN [signal |-> "neutral", strength |-> 0, value |-> growth]
             ELSE IF growth >= -5
             THEN [signal |-> "bearish", strength |-> -1, value |-> growth]
             ELSE [signal |-> "bearish", strength |-> -2, value |-> growth]

_analyze_profitability_metric(value, metric_name) ==
    IF value = None
    THEN [signal |-> "neutral", strength |-> 0, value |-> value]
    ELSE LET benchmark == Get(benchmarks, metric_name,
                              [good |-> 15, acceptable |-> 8])
         IN  IF value >= benchmark.good
             THEN [signal |-> "bullish", strength |-> 2, value |-> value]
             ELSE IF value >= benchmark.acceptable
             THEN [signal |-> "bullish", strength |-> 1, value |-> value]
             ELSE IF value >= 0
             THEN [signal |-> "neutral", strength |-> 0, value |-> value]
             ELSE [signal |-> "bearish", strength |-> -1, value |-> value]

_analyze_current_ratio(ratio) ==
    IF ratio = None
    THEN [signal |-> "neutral", strength |-> 0, value |-> ratio]
    ELSE IF ratio >= benchmarks["current_ratio"].good
    THEN [signal |-> "bullish", strength |-> 2, value |-> ratio]
    ELSE IF ratio >= benchmarks["current_ratio"].acceptable
    THEN [signal |-> "bullish", strength |-> 1, value |-> ratio]
    ELSE IF ratio >= 8
    THEN [signal |-> "neutral", strength |-> 0, value |-> ratio]
    ELSE [signal |-> "bearish", strength |-> -1, value |-> ratio]

\* An aggregation that scales the weighted strength without shifting it
\* into the non-negative range first
_calculate_fundamental_score_unshifted(signals) ==
    IF DOMAIN signals = {} THEN 5000
    ELSE LET names == {n \in DOMAIN signals : "strength" \in DOMAIN signals[n]}
             weight(n) == Get(Get(benchmarks, n, <<>>), "weight", 2)
             total_weighted_strength ==
                SumOver([n \in names |-> signals[n].strength * weight(n)],
                        names)
             total_weight == SumOver([n \in names |-> 2 * weight(n)], names)
         IN  IF total_weight > 0
             THEN (total_weighted_strength * 10000) \div total_weight
             ELSE 5000

\* signals: a function from metric names to signal dicts.  Every signal
\* dict has a strength.  benchmarks.get(name, {}).get('weight', 1): the
\* default weight 1 is 2 halves.
_calculate_fundamental_score(signals) ==
    IF DOMAIN signals = {} THEN 5000
    ELSE LET names == {n \in DOMAIN signals : "strength" \in DOMAIN signals[n]}
             weight(n) == Get(Get(benchmarks, n, <<>>), "weight", 2)
             total_weighted_strength ==
                SumOver([n \in names |-> signals[n].strength * weight(n)],
                        names)
             total_weight == SumOver([n \in names |-> 2 * weight(n)], names)
         IN  IF total_weight > 0
             THEN Round2((total_weighted_strength + total_weight) * 100,
                         2 * total_weight)
             ELSE 5000

\* Python truth value of a number or None: None and 0 are false
Truthy(v) == v # None /\ v # 0

\* revenue_growth in hundredths; a missing pe_ratio reads None, a missing
\* revenue_growth reads the default 0
get_valuation_category(fundamental_data) ==
    LET pe_ratio == Get(fundamental_data, "pe_ratio", None)
        revenue_growth == Get(fundamental_data, "revenue_growth", 0)
    IN  IF Truthy(pe_ratio) /\ pe_ratio < 15
        THEN IF Truthy(revenue_growth) /\ revenue_growth < 5
             THEN "value"
             ELSE "balanced"
        ELSE IF Truthy(revenue_growth) /\ revenue_growth > 15
        THEN "growth"
        ELSE "balanced"

\* the classifier analyze_fundamentals applies to each recognised key
ClassifyMetric(name, v) ==
    CASE name = "pe_ratio" -> _analyze_pe_ratio(v)
      [] name = "profit_margin" -> _analyze_profit_margin(v)
      [] name = "debt_to_equity" -> _analyze_debt_to_equity(v)
      [] name \in {"revenue_growth", "earnings_growth"} ->
            _analyze_growth_metric(v, name)
      [] name = "current_ratio" -> _analyze_current_ratio(v)
      [] OTHER -> _analyze_profitability_metric(v, name)

\* fundamental_data = None
NoData == [py_none |-> TRUE]

\* `not fundamental_data`: None or the empty dict
Falsy(fundamental_data) ==
    fundamental_data = NoData \/ DOMAIN fundamental_data = {}

analyze_fundamentals(fundamental_data) ==
    IF Falsy(fundamental_data)
    THEN [kind |-> "ok", score |-> 5000, signals |-> <<>>, metrics |-> <<>>]
    ELSE LET present == MetricNames \cap DOMAIN fundamental_data
             signals == [n \in present |->
                            ClassifyMetric(n, fundamental_data[n])]
         IN  [kind |-> "ok",
              score |-> _calculate_fundamental_score(signals),
              signals |-> signals,
              metrics |-> fundamental_data]

(***************************************************************************)
(* scoring_engine.py                                                       *)
(***************************************************************************)

\* Bands whose lower ends are exclusive
_generate_recommendation_exclusive(score) ==
    IF score > 80000 THEN "STRONG BUY"
    ELSE IF score > 65000 THEN "BUY"
    ELSE IF score > 45000 THEN "HOLD"
    ELSE IF score > 30000 THEN "SELL"
    ELSE "STRONG SELL"

\* score in thousandths of a point
_generate_recommendation(score) ==
    IF score >= 80000 THEN "STRONG BUY"
    ELSE IF score >= 65000 THEN "BUY"
    ELSE IF score >= 45000 THEN "HOLD"
    ELSE IF score >= 30000 THEN "SELL"
    ELSE "STRONG SELL"

_create_error_result(symbol, error_message) ==
    [symbol |-> symbol,
     overall_score |-> 5000,
     technical_score |-> 5000,
     fundamental_score |-> 5000,
     recommendation |-> "HOLD",
     current_price |-> None,
     error |-> error_message]

\* A blend with the two weights exchanged
CombinedScore_swapped(technical_score, fundamental_score) ==
    technical_score * FUNDAMENTAL_WEIGHT + fundamental_score * TECHNICAL_WEIGHT

\* technical_score * technical_weight + fundamental_score * fundamental_weight
\* of two scores in hundredths, in thousandths
CombinedScore(technical_score, fundamental_score) ==
    technical_score * TECHNICAL_WEIGHT + fundamental_score * FUNDAMENTAL_WEIGHT

\* score_stock from "Calculate combined score" on: the result dict built
\* from what the two analyzers returned.  The recommendation is taken from
\* the unrounded overall score, the dict reports round(overall_score, 2).
CombineResults(symbol, technical_result, fundamental_result) ==
    LET technical_score == technical_result.score
        fundamental_score == fundamental_result.score
        overall_score == CombinedScore(technical_score, fundamental_score)
        recommendation == _generate_recommendation(overall_score)
    IN  [symbol |-> symbol,
         overall_score |-> Round2(overall_score, 1000),
         technical_score |-> technical_score,
         fundamental_score |-> fundamental_score,
         recommendation |-> recommendation,
         current_price |-> technical_result.current_price]

\* A score_stock without the guard on missing price data: the technical
\* analyzer answers an empty series with {'error': ...}, and the read of
\* its 'score' raises
score_stock_unguarded(symbol, data) ==
    LET price_data == data.price_data
        fundamental_data == data.fundamental_data
        technical_result ==
            generate_technical_signals(
                calculate_all_indicators(price_data, data.fail))
    IN  IF technical_result.kind = "error"
        THEN [kind |-> "raise", exc |-> "KeyError", msg |-> "'score'"]
        ELSE IF technical_result.kind = "raise"
        THEN [kind |-> "raise", exc |-> technical_result.exc,
              msg |-> technical_result.msg]
        ELSE [kind |-> "ok",
              result |->
                 CombineResults(symbol, technical_result,
                    analyze_fundamentals(IF Falsy(fundamental_data) THEN <<>>
                                         ELSE fundamental_data))]

\* What the DataFetcher yields for a symbol: the price series (rows = 0:
\* None or empty), the step at which the indicator library raises on it,
\* and the fundamentals dict (NoData: None).
\*
\* score_stock(symbol) with no data supplied.  [kind |-> "raise"] when an
\* exception leaves the method, else [kind |-> "ok", result |-> dict].
score_stock(symbol, data) ==
    LET price_data == data.price_data
    IN  IF price_data.rows = 0
        THEN [kind |-> "ok",
              result |-> _create_error_result(symbol,
                                              "No price data available")]
        ELSE
        LET fundamental_data == data.fundamental_data
            price_data_with_indicators ==
                calculate_all_indicators(price_data, data.fail)
            technical_result ==
                generate_technical_signals(price_data_with_indicators)
        IN  IF technical_result.kind = "raise"
            THEN [kind |-> "raise", exc |-> technical_result.exc,
                  msg |-> technical_result.msg]
            ELSE
            [kind |-> "ok",
             result |->
                CombineResults(symbol, technical_result,
                    analyze_fundamentals(IF Falsy(fundamental_data) THEN <<>>
                                         ELSE fundamental_data))]

\* An insertion for an ascending sort
RECURSIVE InsertAsc(_, _)
InsertAsc(sorted, x) ==
    IF sorted = <<>> THEN <<x>>
    ELSE IF Head(sorted).overall_score <= x.overall_score
    THEN <<Head(sorted)>> \o InsertAsc(Tail(sorted), x)
    ELSE <<x>> \o sorted

\* list.sort(key=overall_score, reverse=True): stable, descending.
\* InsertDesc puts x behind every element whose key is >= its own.
RECURSIVE InsertDesc(_, _)
InsertDesc(sorted, x) ==
    IF sorted = <<>> THEN <<x>>
    ELSE IF Head(sorted).overall_score >= x.overall_score
    THEN <<Head(sorted)>> \o InsertDesc(Tail(sorted), x)
    ELSE <<x>> \o sorted

RECURSIVE SortDesc(_)
SortDesc(results) ==
    IF results = <<>> THEN <<>>
    ELSE InsertDesc(SortDesc(SubSeq(results, 1, Len(results) - 1)),
                    results[Len(results)])

\* the try/except of the loop body of score_portfolio; the placeholder
\* carries str(e)
ScoreOrPlaceholder(symbol, data) ==
    LET r == score_stock(symbol, data)
    IN  IF r.kind = "ok" THEN r.result
        ELSE _create_error_result(symbol, r.msg)

\* A batch whose try block encloses the loop: the first exception ends it
\* and nothing is returned for any symbol
score_portfolio_try_around_loop(symbols, fetch) ==
    LET scored == [i \in 1..Len(symbols) |->
                      score_stock(symbols[i], fetch[symbols[i]])]
    IN  IF \E i \in 1..Len(symbols) : scored[i].kind = "raise" THEN <<>>
        ELSE SortDesc([i \in 1..Len(symbols) |-> scored[i].result])

\* fetch: symbol -> what the DataFetcher yields
score_portfolio(symbols, fetch) ==
    SortDesc([i \in 1..Len(symbols) |->
                ScoreOrPlaceholder(symbols[i], fetch[symbols[i]])])

\* seq[:n]
SliceTo(seq, n) ==
    IF n >= 0 THEN SubSeq(seq, 1, IF n < Len(seq) THEN n ELSE Len(seq))
    ELSE SubSeq(seq, 1, IF Len(seq) + n > 0 THEN Len(seq) + n ELSE 0)

\* A buy filter that looks at the score only
BuyTest_score_only(s) == s.overall_score >= MIN_BUY_SCORE * 100

\* the condition of the buy_candidates comprehension
BuyTest(s) ==
    /\ s.recommendation \in {"STRONG BUY", "BUY"}
    /\ s.overall_score >= MIN_BUY_SCORE * 100

get_buy_recommendations(symbols, top_n, fetch) ==
    LET all_scores == score_portfolio(symbols, fetch)
        buy_candidates == SelectSeq(all_scores, BuyTest)
    IN  SliceTo(buy_candidates, top_n)

\* A sell filter that takes everything scoring below the buy threshold
SellTest_below_buy(s) ==
    \/ s.recommendation \in {"SELL", "STRONG SELL"}
    \/ s.overall_score < MIN_BUY_SCORE * 100

\* A sell filter that wants both the label and the low score
SellTest_both(s) ==
    /\ s.recommendation \in {"SELL", "STRONG SELL"}
    /\ s.overall_score <= MAX_SELL_SCORE * 100

\* the condition of the sell_candidates comprehension
SellTest(s) ==
    \/ s.recommendation \in {"SELL", "STRONG SELL"}
    \/ s.overall_score <= MAX_SELL_SCORE * 100

get_sell_recommendations(holdings, fetch) ==
    LET all_scores == score_portfolio(holdings, fetch)
    IN  SelectSeq(all_scores, SellTest)

(***************************************************************************)
(* Inputs                                                                  *)
(***************************************************************************)

\* the longest symbol list passed to a batch call
MaxBatch == 3
\* the largest top_n passed to get_buy_recommendations
MaxTopN == 2
\* the most keys in a fundamentals dict handed to analyze_fundamentals
MaxMetrics == 3

Symbols == {"AAPL", "MSFT", "GOOGL"}

\* the values each key of a fundamentals dict ranges over: one per branch
\* of its classifier; eps and beta are keys the analyzer does not know
MetricInputs ==
    [pe_ratio |-> {None, -3, 10, 20, 30, 40},
     profit_margin |-> {20, 10, 5, 1},
     debt_to_equity |-> {3, 10, 20, 30},
     revenue_growth |-> {20, 10, 2, -3, -10},
     return_on_equity |-> {20, 10, 5, -5},
     return_on_assets |-> {10, 5, 2, -2},
     current_ratio |-> {None, 25, 15, 9, 5},
     earnings_growth |-> {20, 10, 2, -3, -10},
     operating_margin |-> {20, 10, 5, -5},
     eps |-> {6},
     beta |-> {1}]

RECURSIVE MapsOver(_)
\* the dicts with exactly the keys ks
MapsOver(ks) ==
    IF ks = {} THEN {<<>>}
    ELSE LET k == CHOOSE x \in ks : TRUE
         IN  {(k :> v) @@ m : m \in MapsOver(ks \ {k}), v \in MetricInputs[k]}

\* the key sets of the dicts handed to analyze_fundamentals
KeySets == {x \in SUBSET DOMAIN MetricInputs : Cardinality(x) <= MaxMetrics}

\* the keys of a signals dict handed to _calculate_technical_score; the
\* last is one it has no weight for
SignalKeys == SignalNames \cup {"sentiment_signal"}

\* a signal dict of a given strength
SignalOf(strength) ==
    [signal |-> IF strength > 0 THEN "bullish"
                ELSE IF strength < 0 THEN "bearish" ELSE "neutral",
     strength |-> strength]

\* the technical and fundamental scores the combining step of score_stock
\* is run on: every multiple of 2.5 points, and scores the analyzers
\* return whose blend has a third decimal
ScoreGrid == {250 * i : i \in 0..40}
             \cup {227, 1562, 3571, 7000, 7656, 8229, 8906, 9773}

\* the scores _generate_recommendation is run on, in thousandths: every
\* hundredth of a point from 0 to 100, and the thousandths around the cuts
RecInputs ==
    {10 * i : i \in 0..10000}
    \cup {c + d : c \in {30000, 45000, 65000, 80000}, d \in -9..9}

\* Market situations the DataFetcher can yield for a symbol
AllBullish ==
    MkFrame(25, <<2, 1, -5, -3>>, <<95, 90, 85>>, <<120, 110, 105>>, 500,
            <<250, 70, 85>>, <<10, 15>>)
AllBearish ==
    MkFrame(75, <<-2, -1, 5, 3>>, <<105, 110, 115>>, <<95, 90, 85>>, 2000,
            <<250, 130, 115>>, <<90, 85>>)
AllNeutral ==
    MkFrame(50, <<NaN, NaN, NaN, NaN>>, <<NaN, NaN, NaN>>,
            <<NaN, NaN, NaN>>, 1000, <<250, 100, 100>>, <<50, 50>>)

MarketData ==
    [no_price |->
        [price_data |-> EmptyFrame, fail |-> "none",
         fundamental_data |-> NoData],
     ta_raises |->
        [price_data |-> Strip(AllBullish), fail |-> "rsi",
         fundamental_data |-> [pe_ratio |-> 10]],
     strong_buy |->
        [price_data |-> Strip(AllBullish), fail |-> "none",
         fundamental_data |-> [pe_ratio |-> 10, profit_margin |-> 20]],
     buy |->
        [price_data |-> Strip(AllBullish), fail |-> "none",
         fundamental_data |-> NoData],
     hold_high |->
        [price_data |-> Strip(AllNeutral), fail |-> "none",
         fundamental_data |-> [pe_ratio |-> 20, eps |-> 6]],
     sell_high |->
        [price_data |-> Strip(AllNeutral), fail |-> "none",
         fundamental_data |-> [profit_margin |-> 1, debt_to_equity |-> 20]],
     strong_sell |->
        [price_data |-> Strip(AllBearish), fail |-> "none",
         fundamental_data |-> [revenue_growth |-> -10]]]

Situations == DOMAIN MarketData

\* fetch_price_data / fetch_fundamental_data for every symbol
Fetch(prov) == [s \in Symbols |-> MarketData[prov[s]]]

\* the symbol lists of length <= MaxBatch
SymbolLists == UNION {[1..n -> Symbols] : n \in 0..MaxBatch}

(***************************************************************************)
(* database.py: the holdings table.  ids are AUTOINCREMENT and no row is   *)
(* ever deleted, so the row with id i is the i-th row inserted.            *)
(* Dates are day numbers, prices whole dollars.                            *)
(***************************************************************************)
\* the table after _create_tables on a new database file
EmptyDatabase == [holdings |-> <<>>]

add_holding(d, symbol, purchase_date, purchase_price, quantity) ==
    [d EXCEPT !.holdings =
        Append(@, [id |-> Len(@) + 1, symbol |-> symbol,
                   purchase_date |-> purchase_date,
                   purchase_price |-> purchase_price,
                   quantity |-> quantity, status |-> "ACTIVE",
                   sell_date |-> None, sell_price |-> None,
                   profit_loss |-> None])]

\* SELECT ... WHERE status = 'ACTIVE' ORDER BY purchase_date DESC: the
\* results the query may give, rows of one purchase_date in any order
get_active_holdings(d) ==
    LET rows == {d.holdings[i] : i \in 1..Len(d.holdings)}
        active == {row \in rows : row.status = "ACTIVE"}
        n == Cardinality(active)
    IN  {r \in [1..n -> active] :
            /\ \A i, j \in 1..n : i # j => r[i] # r[j]
            /\ \A i, j \in 1..n :
                    i < j => r[i].purchase_date >= r[j].purchase_date}

\* A close that reopens a holding already closed
close_holding_toggle(d, holding_id, sell_date, sell_price) ==
    IF holding_id \in 1..Len(d.holdings)
    THEN LET row == d.holdings[holding_id]
             profit_loss == (sell_price - row.purchase_price) * row.quantity
         IN  [d EXCEPT !.holdings[holding_id] =
                [row EXCEPT !.status = IF row.status = "CLOSED"
                                       THEN "ACTIVE" ELSE "CLOSED",
                            !.sell_date = sell_date,
                            !.sell_price = sell_price,
                            !.profit_loss = profit_loss]]
    ELSE d

\* fetchone() gives no row for an id not in the table: nothing is updated
close_holding(d, holding_id, sell_date, sell_price) ==
    IF holding_id \in 1..Len(d.holdings)
    THEN LET row == d.holdings[holding_id]
             profit_loss == (sell_price - row.purchase_price) * row.quantity
         IN  [d EXCEPT !.holdings[holding_id] =
                [row EXCEPT !.status = "CLOSED",
                            !.sell_date = sell_date,
                            !.sell_price = sell_price,
                            !.profit_loss = profit_loss]]
    ELSE d

(***************************************************************************)
(* Specifications.  op is the call, ret what it returned.  A pure method   *)
(* is run on each of its inputs: Init draws the call, the action makes it. *)
(***************************************************************************)
IdleOp == [name |-> "idle"]

NoProvider == [s \in Symbols |-> "no_price"]

Returned == ret.kind # "none"

\* ---- _generate_recommendation on a score
InitRec ==
    /\ op \in {[name |-> "_generate_recommendation", score |-> x] :
                x \in RecInputs}
    /\ ret = NotCalled /\ provider = NoProvider /\ db = EmptyDatabase

RecCall ==
    /\ op.name = "_generate_recommendation"
    /\ ret' = [kind |-> "ok", result |-> _generate_recommendation(op.score)]
    /\ UNCHANGED <<provider, op, db>>

SpecRec == InitRec /\ [][RecCall]_vars

\* ---- the combining step of score_stock on two analyzer results
InitCombine ==
    /\ op \in {[name |-> "combine", technical_score |-> t,
                fundamental_score |-> f] : t \in ScoreGrid, f \in ScoreGrid}
    /\ ret = NotCalled /\ provider = NoProvider /\ db = EmptyDatabase

CombineCall ==
    /\ op.name = "combine"
    /\ ret' = [kind |-> "ok",
               result |->
                  CombineResults("AAPL",
                     [score |-> op.technical_score,
                      current_price |-> 100],
                     [score |-> op.fundamental_score])]
    /\ UNCHANGED <<provider, op, db>>

SpecCombine == InitCombine /\ [][CombineCall]_vars

\* ---- the two classifiers and the technical aggregation, each on its input
\* %K at and around the oversold and overbought levels
StochEdges == {0, 19, 20, 21, 50, 79, 80, 81, 100}

TechnicalCalls ==
    \/ \E rsi \in RsiInputs, m \in MacdInputs, ma \in MaInputs,
          bb \in BbInputs, vs \in VolumeInputs, tr \in TrendInputs,
          st \in StochInputs :
            op = [name |-> "generate_technical_signals",
                  df |-> MkFrame(rsi, m, ma, bb, vs, tr, st)]
    \/ \E rsi \in RsiGaps, m \in MacdGaps, ma \in MaGaps,
          bb \in BbGaps, vs \in VolumeGaps, tr \in TrendGaps,
          st \in StochGaps :
            op = [name |-> "generate_technical_signals",
                  df |-> MkFrame(rsi, m, ma, bb, vs, tr, st)]
    \/ \E rsi \in RsiGaps, tr \in TrendGaps, step \in StepSet :
            op = [name |-> "generate_technical_signals",
                  df |-> PartialFrame(rsi, tr, step)]
    \/ op = [name |-> "generate_technical_signals", df |-> EmptyFrame]
    \/ \E k \in StochEdges, d \in {NaN, 50} :
            op = [name |-> "generate_technical_signals",
                  df |-> MkFrame(50, <<NaN, NaN, NaN, NaN>>, <<NaN, NaN, NaN>>,
                                 <<NaN, NaN, NaN>>, 1000, <<250, 100, 100>>,
                                 <<k, d>>)]

FundamentalCalls ==
    \/ op = [name |-> "analyze_fundamentals", fundamental_data |-> NoData]
    \/ \E ks \in KeySets : \E m \in MapsOver(ks) :
            op = [name |-> "analyze_fundamentals", fundamental_data |-> m]

AggregationCalls ==
    \E present \in SUBSET SignalKeys :
        \E strengths \in [present -> {-2, 0, 2}] :
            op = [name |-> "_calculate_technical_score",
                  signals |-> [n \in present |-> SignalOf(strengths[n])]]

InitClassify ==
    /\ TechnicalCalls \/ FundamentalCalls \/ AggregationCalls
    /\ ret = NotCalled /\ provider = NoProvider /\ db = EmptyDatabase

TechCall ==
    /\ op.name = "generate_technical_signals"
    /\ ret' = generate_technical_signals(op.df)
    /\ UNCHANGED <<provider, op, db>>

FundCall ==
    /\ op.name = "analyze_fundamentals"
    /\ ret' = analyze_fundamentals(op.fundamental_data)
    /\ UNCHANGED <<provider, op, db>>

TechScoreCall ==
    /\ op.name = "_calculate_technical_score"
    /\ ret' = [kind |-> "ok",
               result |-> _calculate_technical_score(op.signals)]
    /\ UNCHANGED <<provider, op, db>>

NextClassify == TechCall \/ FundCall \/ TechScoreCall

SpecClassify == InitClassify /\ [][NextClassify]_vars

\* ---- calculate_all_indicators on a price series, the library raising at
\* a step or not at all
IndicatorCalls ==
    \/ \E rsi \in RsiGaps, m \in MacdGaps, tr \in TrendGaps, st \in StochGaps,
          fail \in StepSet \cup {"none"} :
            op = [name |-> "calculate_all_indicators",
                  df |-> Strip(MkFrame(rsi, m, <<95, 90, 85>>,
                                       <<115, 105, 95>>, 2000, tr, st)),
                  fail |-> fail]
    \/ op = [name |-> "calculate_all_indicators", df |-> EmptyFrame,
             fail |-> "none"]

InitIndicators ==
    /\ IndicatorCalls
    /\ ret = NotCalled /\ provider = NoProvider /\ db = EmptyDatabase

\* ret.df is the frame returned, ret.caller_df the caller's frame after the
\* call
IndicatorsCall ==
    /\ op.name = "calculate_all_indicators"
    /\ ret' = [kind |-> "ok",
               df |-> calculate_all_indicators(op.df, op.fail),
               caller_df |-> CallerFrame(op.df, op.fail)]
    /\ UNCHANGED <<provider, op, db>>

SpecIndicators == InitIndicators /\ [][IndicatorsCall]_vars

\* ---- the sub-classifiers of the TechnicalAnalyzer, each on its inputs
\* a frame whose latest and previous rows hold the MACD cells m
MacdFrame(m, rows) ==
    MkFrame(50, m, <<NaN, NaN, NaN>>, <<NaN, NaN, NaN>>, 1000,
            <<rows, 100, 100>>, <<50, 50>>)

\* a frame whose latest row holds the close price and the averages ma
MaFrame(price, ma) ==
    [MkFrame(50, <<NaN, NaN, NaN, NaN>>, ma, <<NaN, NaN, NaN>>, 1000,
             <<250, 100, 100>>, <<50, 50>>) EXCEPT !.Close = price]

\* a frame of so many rows whose trailing window starts at first_close,
\* ends at 100 and has mean 100
TrendFrame(rows, first_close) ==
    MkFrame(50, <<NaN, NaN, NaN, NaN>>, <<NaN, NaN, NaN>>,
            <<NaN, NaN, NaN>>, 1000, <<rows, first_close, 100>>, <<50, 50>>)

\* MACD and signal cells, tenths
MacdCells == {NaN, -5, -3, 0, 1, 2}
\* moving-average cells around the close prices 100 and 115
MaCells == {NaN, 90, 100, 110, 120}

\* a frame whose latest row holds the bands bb = <<upper, middle, lower>>
\* against the close price 100; without the band columns when the library
\* returned no bands
BbFrame(bb, computed) ==
    LET df == MkFrame(50, <<NaN, NaN, NaN, NaN>>, <<NaN, NaN, NaN>>, bb,
                      1000, <<250, 100, 100>>, <<50, 50>>)
    IN  IF computed THEN df
        ELSE [df EXCEPT !.cols = @ \ {"bb_upper", "bb_middle", "bb_lower"}]

\* band cells around the close price 100
BbCells == {NaN, 90, 95, 100, 105, 110}
\* <<upper, middle, lower>> with the lower band not above the upper
BbTriples ==
    {bb \in BbCells \X BbCells \X BbCells :
        isna(bb[1]) \/ isna(bb[3]) \/ bb[3] <= bb[1]}

SignalCalls ==
    \/ \E bb \in BbTriples, computed \in BOOLEAN :
            op = [name |-> "_analyze_bollinger_bands",
                  df |-> BbFrame(bb, computed)]
    \/ \E rsi \in 0..100 \cup {NaN, None} :
            op = [name |-> "_analyze_rsi", rsi |-> rsi]
    \/ \E m \in MacdCells \X MacdCells \X MacdCells \X MacdCells,
          rows \in {1, 250} :
            op = [name |-> "_analyze_macd", df |-> MacdFrame(m, rows)]
    \/ \E price \in {100, 115}, ma \in MaCells \X MaCells \X MaCells :
            op = [name |-> "_analyze_moving_averages",
                  df |-> MaFrame(price, ma)]
    \/ \E rows \in {1, 19, 20, 250}, first_close \in 60..140 :
            op = [name |-> "_analyze_trend",
                  df |-> TrendFrame(rows, first_close)]

InitSignal ==
    /\ SignalCalls
    /\ ret = NotCalled /\ provider = NoProvider /\ db = EmptyDatabase

RsiCall ==
    /\ op.name = "_analyze_rsi"
    /\ ret' = [kind |-> "ok", result |-> _analyze_rsi(op.rsi)]
    /\ UNCHANGED <<provider, op, db>>

MacdCall ==
    /\ op.name = "_analyze_macd"
    /\ ret' = [kind |-> "ok", result |-> _analyze_macd(op.df)]
    /\ UNCHANGED <<provider, op, db>>

MaCall ==
    /\ op.name = "_analyze_moving_averages"
    /\ ret' = [kind |-> "ok", result |-> _analyze_moving_averages(op.df)]
    /\ UNCHANGED <<provider, op, db>>

BbCall ==
    /\ op.name = "_analyze_bollinger_bands"
    /\ ret' = [kind |-> "ok", result |-> _analyze_bollinger_bands(op.df)]
    /\ UNCHANGED <<provider, op, db>>

TrendCall ==
    /\ op.name = "_analyze_trend"
    /\ ret' = [kind |-> "ok", result |-> _analyze_trend(op.df)]
    /\ UNCHANGED <<provider, op, db>>

NextSignal == RsiCall \/ MacdCall \/ MaCall \/ TrendCall \/ BbCall

SpecSignal == InitSignal /\ [][NextSignal]_vars

\* ---- the ScoringEngine against a data provider
Init ==
    /\ provider \in [Symbols -> Situations]
    /\ op = IdleOp /\ ret = NotCalled /\ db = EmptyDatabase

ScoreStock ==
    \E symbol \in Symbols :
        /\ op = IdleOp
        /\ op' = [name |-> "score_stock", symbol |-> symbol]
        /\ ret' = score_stock(symbol, Fetch(provider)[symbol])
        /\ UNCHANGED <<provider, db>>

ScorePortfolio ==
    \E symbols \in SymbolLists :
        /\ op = IdleOp
        /\ op' = [name |-> "score_portfolio", symbols |-> symbols]
        /\ ret' = [kind |-> "ok",
                   result |-> score_portfolio(symbols, Fetch(provider))]
        /\ UNCHANGED <<provider, db>>

GetBuyRecommendations ==
    \E symbols \in SymbolLists, top_n \in 0..MaxTopN :
        /\ op = IdleOp
        /\ op' = [name |-> "get_buy_recommendations", symbols |-> symbols,
                  top_n |-> top_n]
        /\ ret' = [kind |-> "ok",
                   result |-> get_buy_recommendations(symbols, top_n,
                                                      Fetch(provider))]
        /\ UNCHANGED <<provider, db>>

GetSellRecommendations ==
    \E holdings \in SymbolLists :
        /\ op = IdleOp
        /\ op' = [name |-> "get_sell_recommendations", symbols |-> holdings]
        /\ ret' = [kind |-> "ok",
                   result |-> get_sell_recommendations(holdings,
                                                       Fetch(provider))]
        /\ UNCHANGED <<provider, db>>

\* the caller takes the result; the engine keeps nothing between calls
Return ==
    /\ op # IdleOp
    /\ op' = IdleOp /\ ret' = NotCalled
    /\ UNCHANGED <<provider, db>>

Next ==
    \/ ScoreStock
    \/ ScorePortfolio
    \/ GetBuyRecommendations
    \/ GetSellRecommendations
    \/ Return

Spec == Init /\ [][Next]_vars

\* ---- the metric classifiers of FundamentalAnalyzer called directly ----

\* metric values in the units of benchmarks, across every threshold
MetricValues == (-20 .. 60) \cup {None}

GrowthMetrics == {"revenue_growth", "earnings_growth"}
ProfitabilityMetrics ==
    {"return_on_equity", "return_on_assets", "operating_margin"}

MetricCalls ==
    \E v \in MetricValues :
        \/ op = [name |-> "_analyze_pe_ratio", metric |-> "pe_ratio",
                 value |-> v]
        \/ op = [name |-> "_analyze_profit_margin",
                 metric |-> "profit_margin", value |-> v]
        \/ op = [name |-> "_analyze_debt_to_equity",
                 metric |-> "debt_to_equity", value |-> v]
        \/ \E m \in GrowthMetrics :
                op = [name |-> "_analyze_growth_metric", metric |-> m,
                      value |-> v]
        \/ \E m \in ProfitabilityMetrics :
                op = [name |-> "_analyze_profitability_metric", metric |-> m,
                      value |-> v]
        \/ op = [name |-> "_analyze_current_ratio",
                 metric |-> "current_ratio", value |-> v]

\* P/E and revenue growth (hundredths) around the thresholds of
\* get_valuation_category, None included
ValuationPe == {None, -3, 0, 10, 14, 15, 20}
ValuationGrowth == {None, -10, 0, 2, 4, 5, 10, 15, 16, 20}

\* the dicts handed to get_valuation_category: either key may be missing
ValuationInputs ==
    {<<>>}
    \cup {("pe_ratio" :> pe) : pe \in ValuationPe}
    \cup {("revenue_growth" :> rg) : rg \in ValuationGrowth}
    \cup {("pe_ratio" :> pe) @@ ("revenue_growth" :> rg) :
            pe \in ValuationPe, rg \in ValuationGrowth}

ValuationCalls ==
    \E data \in ValuationInputs :
        op = [name |-> "get_valuation_category", fundamental_data |-> data]

InitMetric ==
    /\ MetricCalls \/ ValuationCalls
    /\ ret = NotCalled /\ provider = NoProvider /\ db = EmptyDatabase

ValuationCall ==
    /\ op.name = "get_valuation_category"
    /\ ret' = [kind |-> "ok",
               result |-> get_valuation_category(op.fundamental_data)]
    /\ UNCHANGED <<provider, op, db>>

PeCall ==
    /\ op.name = "_analyze_pe_ratio"
    /\ ret' = [kind |-> "ok", result |-> _analyze_pe_ratio(op.value)]
    /\ UNCHANGED <<provider, op, db>>

ProfitMarginCall ==
    /\ op.name = "_analyze_profit_margin"
    /\ ret' = [kind |-> "ok", result |-> _analyze_profit_margin(op.value)]
    /\ UNCHANGED <<provider, op, db>>

DebtToEquityCall ==
    /\ op.name = "_analyze_debt_to_equity"
    /\ ret' = [kind |-> "ok", result |-> _analyze_debt_to_equity(op.value)]
    /\ UNCHANGED <<provider, op, db>>

GrowthCall ==
    /\ op.name = "_analyze_growth_metric"
    /\ ret' = [kind |-> "ok",
               result |-> _analyze_growth_metric(op.value, op.metric)]
    /\ UNCHANGED <<provider, op, db>>

ProfitabilityCall ==
    /\ op.name = "_analyze_profitability_metric"
    /\ ret' = [kind |-> "ok",
               result |-> _analyze_profitability_metric(op.value, op.metric)]
    /\ UNCHANGED <<provider, op, db>>

CurrentRatioCall ==
    /\ op.name = "_analyze_current_ratio"
    /\ ret' = [kind |-> "ok", result |-> _analyze_current_ratio(op.value)]
    /\ UNCHANGED <<provider, op, db>>

NextMetric ==
    \/ PeCall \/ ProfitMarginCall \/ DebtToEquityCall
    \/ GrowthCall \/ ProfitabilityCall \/ CurrentRatioCall
    \/ ValuationCall

SpecMetric == InitMetric /\ [][NextMetric]_vars

\* ---- StockDatabase: holdings added, closed and listed ----

\* the most rows inserted into the holdings table
MaxHoldings == 3

PurchaseDates == {1, 2}
SellPrices == {90, 110}

InitHoldings ==
    /\ db = EmptyDatabase
    /\ op = IdleOp /\ ret = NotCalled /\ provider = NoProvider

AddHolding ==
    \E purchase_date \in PurchaseDates :
        /\ op = IdleOp
        /\ Len(db.holdings) < MaxHoldings
        /\ op' = [name |-> "add_holding", symbol |-> "AAPL",
                  purchase_date |-> purchase_date, purchase_price |-> 100,
                  quantity |-> 10]
        /\ db' = add_holding(db, "AAPL", purchase_date, 100, 10)
        /\ ret' = [kind |-> "ok", result |-> None]
        /\ UNCHANGED provider

GetActiveHoldings ==
    /\ op = IdleOp
    /\ op' = [name |-> "get_active_holdings"]
    /\ \E r \in get_active_holdings(db) :
            ret' = [kind |-> "ok", result |-> r]
    /\ UNCHANGED <<provider, db>>

CloseHolding ==
    \E holding_id \in 1..(MaxHoldings + 1), sell_price \in SellPrices :
        /\ op = IdleOp
        /\ op' = [name |-> "close_holding", holding_id |-> holding_id,
                  sell_date |-> 3, sell_price |-> sell_price]
        /\ db' = close_holding(db, holding_id, 3, sell_price)
        /\ ret' = [kind |-> "ok", result |-> None]
        /\ UNCHANGED provider

NextHoldings == AddHolding \/ GetActiveHoldings \/ CloseHolding \/ Return

SpecHoldings == InitHoldings /\ [][NextHoldings]_vars

(***************************************************************************)
(* Properties                                                              *)
(***************************************************************************)
Range(seq) == {seq[i] : i \in 1..Len(seq)}

\* how often symbol s occurs in a list of symbols / of results
CountSymbol(symbols, s) == Cardinality({i \in 1..Len(symbols) : symbols[i] = s})
CountResult(results, s) ==
    Cardinality({i \in 1..Len(results) : results[i].symbol = s})

Descending(results) ==
    \A i \in 1..Len(results) - 1 :
        results[i].overall_score >= results[i + 1].overall_score

\* C1: _generate_recommendation maps a combined score to STRONG BUY from 80
\* up, BUY from 65 to below 80, HOLD from 45 to below 65, SELL from 30 to
\* below 45 and STRONG SELL below 30; every lower end belongs to its band
\* (80.0 is STRONG BUY, 79.99 is BUY).
C1_RecommendationBands ==
    (op.name = "_generate_recommendation" /\ Returned) =>
        LET score == op.score
            label == ret.result
        IN  /\ (score >= 80000) <=> (label = "STRONG BUY")
            /\ (65000 <= score /\ score < 80000) <=> (label = "BUY")
            /\ (45000 <= score /\ score < 65000) <=> (label = "HOLD")
            /\ (30000 <= score /\ score < 45000) <=> (label = "SELL")
            /\ (score < 30000) <=> (label = "STRONG SELL")

\* 79.99 has been mapped, to BUY
C1_Witness ==
    /\ op.name = "_generate_recommendation" /\ Returned
    /\ op.score = 79990 /\ ret.result = "BUY"

\* C2 as the specification states it: technical 70 and fundamental 50
\* combine to 62.00 and the recommendation BUY.
C2_AsStated ==
    (/\ op.name = "combine" /\ Returned
     /\ op.technical_score = 7000 /\ op.fundamental_score = 5000) =>
        /\ ret.result.overall_score = 6200
        /\ ret.result.recommendation = "BUY"

\* C2: technical 70 and fundamental 50 combine to an overall score of 62.00
\* (70 x 0.6 + 50 x 0.4); 62 lies in the band from 45 to below 65, so the
\* recommendation is HOLD.
C2_Example ==
    (/\ op.name = "combine" /\ Returned
     /\ op.technical_score = 7000 /\ op.fundamental_score = 5000) =>
        /\ ret.result.overall_score = 6200
        /\ ret.result.recommendation = "HOLD"

C2_Witness ==
    /\ op.name = "combine" /\ Returned
    /\ op.technical_score = 7000 /\ op.fundamental_score = 5000
    /\ ret.result.technical_score = 7000

\* C3: score_portfolio returns exactly one result per input symbol; a
\* symbol whose scoring raises gets a placeholder (HOLD, all scores 50,
\* the exception text as error), and the results of the other symbols are
\* what the batch without the raising symbols returns.
C3_ScorePortfolioIsolatesFailures ==
    (op.name = "score_portfolio") =>
        LET symbols == op.symbols
            results == ret.result
            fetch == Fetch(provider)
            Scored(s) == score_stock(s, fetch[s])
            Healthy(s) == Scored(s).kind # "raise"
            OfHealthy(r) == Healthy(r.symbol)
        IN  /\ Len(results) = Len(symbols)
            /\ \A s \in Symbols :
                  CountResult(results, s) = CountSymbol(symbols, s)
            /\ \A i \in 1..Len(results) :
                  ~Healthy(results[i].symbol) =>
                     /\ results[i].recommendation = "HOLD"
                     /\ results[i].overall_score = 5000
                     /\ results[i].technical_score = 5000
                     /\ results[i].fundamental_score = 5000
                     /\ results[i].error = Scored(results[i].symbol).msg
            /\ SelectSeq(results, OfHealthy)
                  = score_portfolio(SelectSeq(symbols, Healthy), fetch)

\* a batch of three in which one symbol raised and another was scored
C3_Witness ==
    /\ op.name = "score_portfolio" /\ Len(op.symbols) = 3
    /\ \E i, j \in 1..3 :
          /\ provider[op.symbols[i]] = "ta_raises"
          /\ provider[op.symbols[j]] = "strong_buy"
    /\ \E r \in Range(ret.result) :
          "error" \in DOMAIN r /\ r.error = "'rsi'"

\* C4: the results of score_portfolio are in descending order of overall
\* score, placeholders included.
C4_ScorePortfolioSorted ==
    (op.name = "score_portfolio") => Descending(ret.result)

\* a batch given in ascending order, with a placeholder in the middle,
\* comes back reversed
C4_Witness ==
    /\ op.name = "score_portfolio" /\ Len(op.symbols) = 3
    /\ provider[op.symbols[1]] = "strong_sell"
    /\ provider[op.symbols[2]] = "ta_raises"
    /\ provider[op.symbols[3]] = "strong_buy"
    /\ ret.result[1].symbol = op.symbols[3]
    /\ ret.result[2].symbol = op.symbols[2]
    /\ ret.result[3].symbol = op.symbols[1]

\* C5: get_buy_recommendations(symbols, top_n) returns the first top_n, in
\* descending score order, of the batch results that are STRONG BUY or BUY
\* and score at least 60: nothing else is returned, no qualifying result
\* that scores higher than a returned one is left out, and fewer than
\* top_n come back only when fewer qualify.
C5_BuyRecommendations ==
    (op.name = "get_buy_recommendations") =>
        LET returned == ret.result
            all_scores == score_portfolio(op.symbols, Fetch(provider))
            Qualifies(r) ==
                /\ r.recommendation \in {"STRONG BUY", "BUY"}
                /\ r.overall_score >= 6000
            qualifying == SelectSeq(all_scores, Qualifies)
            n == IF op.top_n < Len(qualifying) THEN op.top_n
                 ELSE Len(qualifying)
        IN  /\ Len(returned) = n
            /\ returned = SubSeq(qualifying, 1, n)
            /\ \A i \in 1..Len(returned) : Qualifies(returned[i])
            /\ Descending(returned)
            /\ \A i \in 1..Len(returned), j \in n + 1..Len(qualifying) :
                  qualifying[j].overall_score <= returned[i].overall_score

\* a request that both filtered (a HOLD at exactly 60 was in the batch) and
\* truncated (two qualified, one was asked for)
C5_Witness ==
    /\ op.name = "get_buy_recommendations" /\ op.top_n = 1
    /\ {provider[s] : s \in Range(op.symbols)}
          = {"hold_high", "buy", "strong_buy"}
    /\ Len(ret.result) = 1
    /\ ret.result[1].recommendation = "STRONG BUY"

\* C6: get_sell_recommendations(holdings) returns exactly the results for
\* the holdings whose recommendation is SELL or STRONG SELL or whose
\* overall score is at most 40; symbols outside the holdings never appear.
C6_SellRecommendations ==
    (op.name = "get_sell_recommendations") =>
        LET returned == ret.result
            all_scores == score_portfolio(op.symbols, Fetch(provider))
            Qualifies(r) ==
                \/ r.recommendation \in {"SELL", "STRONG SELL"}
                \/ r.overall_score <= 4000
        IN  /\ returned = SelectSeq(all_scores, Qualifies)
            /\ \A i \in 1..Len(returned) :
                  /\ Qualifies(returned[i])
                  /\ returned[i].symbol \in Range(op.symbols)
            /\ \A i \in 1..Len(all_scores) :
                  Qualifies(all_scores[i]) => all_scores[i] \in Range(returned)

\* holdings with a SELL above 40 and a STRONG BUY, while a symbol that is
\* not held is a STRONG SELL: one result comes back
C6_Witness ==
    /\ op.name = "get_sell_recommendations"
    /\ {provider[s] : s \in Range(op.symbols)} = {"sell_high", "strong_buy"}
    /\ \E s \in Symbols \ Range(op.symbols) : provider[s] = "strong_sell"
    /\ Len(ret.result) = 1
    /\ ret.result[1].recommendation = "SELL"
    /\ ret.result[1].overall_score > 4000

\* C7: every signal strength of either classifier is an integer from -2 to
\* 2, and every score returned by generate_technical_signals and by
\* analyze_fundamentals lies between 0 and 100.
C7_StrengthAndScoreRanges ==
    ((/\ op.name \in {"generate_technical_signals", "analyze_fundamentals"}
      /\ ret.kind = "ok")) =>
        /\ \A n \in DOMAIN ret.signals : ret.signals[n].strength \in -2..2
        /\ 0 <= ret.score /\ ret.score <= 10000

\* fundamentals whose every metric is at its worst: strength -2, score 0
C7_Witness ==
    /\ op.name = "analyze_fundamentals" /\ ret.kind = "ok"
    /\ ret.score = 0
    /\ DOMAIN ret.signals # {}
    /\ \A n \in DOMAIN ret.signals : ret.signals[n].strength = -2

\* C8: a category score computed from no contributing signal is exactly
\* 50: _calculate_technical_score when every sub-signal is absent, and
\* analyze_fundamentals for an empty map, a missing map or a map without a
\* recognised key, which also reports no signals.
C8_NoSignalsScoreFifty ==
    /\ (/\ op.name = "_calculate_technical_score" /\ Returned
        /\ DOMAIN op.signals \cap SignalNames = {})
          => ret.result = 5000
    /\ (/\ op.name = "analyze_fundamentals" /\ Returned
        /\ DOMAIN ret.signals = {})
          => ret.score = 5000
    /\ (/\ op.name = "analyze_fundamentals" /\ Returned
        /\ \/ op.fundamental_data = NoData
           \/ DOMAIN op.fundamental_data \cap MetricNames = {})
          => ret.score = 5000 /\ DOMAIN ret.signals = {}

\* the aggregation was handed only a signal it has no weight for
C8_Witness ==
    /\ op.name = "_calculate_technical_score" /\ Returned
    /\ DOMAIN op.signals = {"sentiment_signal"}
    /\ ret.result = 5000

\* C9: the overall score of a result is technical x 0.6 + fundamental x 0.4
\* to two decimals; it lies between the smaller and the larger of the two
\* category scores and between 0 and 100.
C9_OverallScoreBlend ==
    (op.name = "combine" /\ Returned) =>
        LET t == ret.result.technical_score
            f == ret.result.fundamental_score
            o == ret.result.overall_score
            exact == 6 * t + 4 * f       \* thousandths
            lo == IF t < f THEN t ELSE f
            hi == IF t < f THEN f ELSE t
        IN  /\ t = op.technical_score /\ f = op.fundamental_score
            /\ 10 * o - exact <= 5 /\ exact - 10 * o <= 5
            /\ lo <= o /\ o <= hi
            /\ 0 <= o /\ o <= 10000

\* 82.29 and 76.56 blend to 79.998, reported as 80.00
C9_Witness ==
    /\ op.name = "combine" /\ Returned
    /\ op.technical_score = 8229 /\ op.fundamental_score = 7656
    /\ ret.result.overall_score = 8000

\* C10: a non-empty series with only the OHLCV columns left is given the
\* neutral technical default (score 50, no directional signal) rather than
\* an error, and a fundamentals map with no keys scores 50 with no signals.
C10_MissingIndicatorsNeutral ==
    /\ (/\ op.name = "generate_technical_signals" /\ Returned
        /\ op.df.rows > 0 /\ op.df.cols = {})
          => /\ ret.kind = "ok"
             /\ ret.score = 5000
             /\ \A n \in DOMAIN ret.signals :
                   ret.signals[n].signal = "neutral"
    /\ (/\ op.name = "analyze_fundamentals" /\ Returned
        /\ op.fundamental_data = <<>>)
          => ret.score = 5000 /\ DOMAIN ret.signals = {}

\* C11: in calculate_all_indicators each indicator is computed
\* independently: when the computation of one indicator fails, the columns
\* of every other indicator, later ones included, are in the returned frame.
C11_IndicatorsIndependent ==
    (/\ op.name = "calculate_all_indicators" /\ Returned
     /\ op.df.rows > 0 /\ op.fail # "none") =>
        \A step \in StepSet \ {op.fail} :
            StepCols(op.df, step) \subseteq ret.df.cols

\* C12: with no price bars for a symbol (none supplied, none or an empty
\* series from the provider) score_stock does not raise; it returns HOLD
\* with overall, technical and fundamental score 50, no current price and
\* the error text.
C12_NoPriceDataResult ==
    (/\ op.name = "score_stock" /\ provider[op.symbol] = "no_price") =>
        /\ ret.kind = "ok"
        /\ ret.result.symbol = op.symbol
        /\ ret.result.recommendation = "HOLD"
        /\ ret.result.overall_score = 5000
        /\ ret.result.technical_score = 5000
        /\ ret.result.fundamental_score = 5000
        /\ ret.result.current_price = None
        /\ ret.result.error = "No price data available"

\* a symbol without price bars has been scored while another symbol has
\* bars
C12_Witness ==
    /\ op.name = "score_stock" /\ provider[op.symbol] = "no_price"
    /\ \E s \in Symbols : provider[s] = "strong_buy"
    /\ ret.kind = "ok" /\ "error" \in DOMAIN ret.result

C14_RsiClassification ==
    (op.name = "_analyze_rsi" /\ Returned) =>
        LET rsi == op.rsi
            strength == ret.result.strength
            signal == ret.result.signal
        IN  IF rsi \in {NaN, None}
            THEN strength = 0 /\ signal = "neutral"
            ELSE /\ (rsi < 30) => (strength = 2 /\ signal = "bullish")
                 /\ (30 <= rsi /\ rsi < 40)
                       => (strength = 1 /\ signal = "bullish")
                 /\ (40 <= rsi /\ rsi <= 60)
                       => (strength = 0 /\ signal = "neutral")
                 /\ (60 < rsi /\ rsi <= 70)
                       => (strength = -1 /\ signal = "bearish")
                 /\ (rsi > 70) => (strength = -2 /\ signal = "bearish")

\* an RSI of exactly 30 has been classified, as bullish 1
C14_Witness ==
    /\ op.name = "_analyze_rsi" /\ Returned
    /\ op.rsi = 30 /\ ret.result.strength = 1

\* C15: with MACD and signal present, _analyze_macd returns a bullish
\* crossover of strength 2 when previous MACD <= previous signal and
\* latest MACD > latest signal, a bearish crossover of strength -2 when
\* previous MACD >= previous signal and latest MACD < latest signal, and
\* otherwise 1 if latest MACD > latest signal, else -1.
C15_MacdClassification ==
    (/\ op.name = "_analyze_macd" /\ Returned
     /\ ~isna(op.df.latest["macd"]) /\ ~isna(op.df.latest["macd_signal"])) =>
        LET macd == op.df.latest["macd"]
            signal == op.df.latest["macd_signal"]
            prev_macd == op.df.prev_macd
            prev_signal == op.df.prev_macd_signal
            prev_there == ~isna(prev_macd) /\ ~isna(prev_signal)
            bullish_cross ==
                prev_there /\ prev_macd <= prev_signal /\ macd > signal
            bearish_cross ==
                prev_there /\ prev_macd >= prev_signal /\ macd < signal
            r == ret.result
        IN  /\ bullish_cross =>
                 (r.strength = 2 /\ r.signal = "bullish"
                                 /\ r.crossover = "bullish")
            /\ bearish_cross =>
                 (r.strength = -2 /\ r.signal = "bearish"
                                  /\ r.crossover = "bearish")
            /\ (~bullish_cross /\ ~bearish_cross) =>
                 /\ r.crossover = "None"
                 /\ (macd > signal) => (r.strength = 1)
                 /\ (macd <= signal) => (r.strength = -1)

\* previous (-0.5, -0.3), latest (0.2, 0.1): a bullish crossover
C15_Witness ==
    /\ op.name = "_analyze_macd" /\ Returned
    /\ op.df.rows = 250
    /\ op.df.latest["macd"] = 2 /\ op.df.latest["macd_signal"] = 1
    /\ op.df.prev_macd = -5 /\ op.df.prev_macd_signal = -3
    /\ ret.result.strength = 2 /\ ret.result.crossover = "bullish"

\* C16: _analyze_moving_averages returns 2 (golden_cross) when
\* sma_short > sma_medium > sma_long and price > sma_short, -2
\* (death_cross) under the mirrored condition, 1 when the price is above
\* all three averages without a golden cross, -1 when below all three
\* without a death cross, and neutral 0 otherwise and whenever one of the
\* three averages is missing.
C16_MovingAverageClassification ==
    (op.name = "_analyze_moving_averages" /\ Returned) =>
        LET price == op.df.Close
            short == op.df.latest["sma_20"]
            medium == op.df.latest["sma_50"]
            long == op.df.latest["sma_200"]
            missing == isna(short) \/ isna(medium) \/ isna(long)
            golden == short > medium /\ medium > long /\ price > short
            death == short < medium /\ medium < long /\ price < short
            above == price > short /\ price > medium /\ price > long
            below == price < short /\ price < medium /\ price < long
            r == ret.result
        IN  IF missing THEN r.strength = 0 /\ r.signal = "neutral"
            ELSE /\ golden => (r.strength = 2 /\ r.pattern = "golden_cross")
                 /\ death => (r.strength = -2 /\ r.pattern = "death_cross")
                 /\ (above /\ ~golden) => (r.strength = 1)
                 /\ (below /\ ~death) => (r.strength = -1)
                 /\ (~golden /\ ~death /\ ~above /\ ~below)
                       => (r.strength = 0 /\ r.signal = "neutral")

\* 110 > 100 > 90 with the price at 115: a golden cross
C16_Witness ==
    /\ op.name = "_analyze_moving_averages" /\ Returned
    /\ op.df.Close = 115
    /\ op.df.latest["sma_20"] = 110 /\ op.df.latest["sma_50"] = 100
    /\ op.df.latest["sma_200"] = 90
    /\ ret.result.strength = 2 /\ ret.result.pattern = "golden_cross"

\* the weights C17 and C18 name, in halves
StatedWeights == [rsi_signal |-> 4, macd_signal |-> 5, ma_signal |-> 4,
                  bb_signal |-> 3, volume_signal |-> 2, trend_signal |-> 4,
                  stoch_signal |-> 2]

\* sum of strength x weight + sum of 2 x weight over the signals named in
\* names, in halves
RescaleNum(signals, names) ==
    SumOver([n \in names |-> signals[n].strength * StatedWeights[n]
                             + 2 * StatedWeights[n]], names)
\* 2 x sum of weight, in halves
TwiceWeights(names) == 2 * SumOver([n \in names |-> StatedWeights[n]], names)
\* 2 x sum of 2 x weight, in halves: all strengths 2 rescale to 100
RescaleDen(names) == 2 * SumOver([n \in names |-> 2 * StatedWeights[n]], names)

\* score, in hundredths, is num/den x 100 exactly
ExactlyRescaled(score, num, den) == score * den = 10000 * num
\* score, in hundredths, is num/den x 100 rounded to two decimals
RescaledToTwoDecimals(score, num, den) ==
    /\ 2 * (score * den - 10000 * num) <= den
    /\ 2 * (10000 * num - score * den) <= den

\* the signals and the score of a returned technical aggregation
AggregatedSignals ==
    IF op.name = "_calculate_technical_score" THEN op.signals ELSE ret.signals
AggregatedScore ==
    IF op.name = "_calculate_technical_score" THEN ret.result ELSE ret.score
Aggregated ==
    /\ op.name \in {"_calculate_technical_score", "generate_technical_signals"}
    /\ ret.kind = "ok"
    /\ DOMAIN AggregatedSignals \cap SignalNames # {}

\* C17 as the specification states it: the technical score equals
\* ((sum of strength x weight + sum of 2 x weight) / (2 x sum of weight))
\* x 100 with the weights RSI 2, MACD 2.5, MA 2, BB 1.5, Volume 1, Trend 2,
\* Stochastic 1.
C17_AsStated ==
    Aggregated =>
        LET names == DOMAIN AggregatedSignals \cap SignalNames
        IN  ExactlyRescaled(AggregatedScore,
                            RescaleNum(AggregatedSignals, names),
                            TwiceWeights(names))

\* C17: the technical score of a set of contributing sub-signals is
\* ((sum of strength x weight + sum of 2 x weight) / (2 x sum of
\* 2 x weight)) x 100 rounded to two decimals, with the weights RSI 2,
\* MACD 2.5, MA 2, BB 1.5, Volume 1, Trend 2, Stochastic 1: all strengths
\* -2 give 0, all strengths 2 give 100.
C17_TechnicalScoreFormula ==
    Aggregated =>
        LET names == DOMAIN AggregatedSignals \cap SignalNames
        IN  RescaledToTwoDecimals(AggregatedScore,
                                  RescaleNum(AggregatedSignals, names),
                                  RescaleDen(names))

\* six signals, all at their best but a volume of 1: 43/44, reported as
\* 97.73
C17_Witness ==
    /\ op.name = "generate_technical_signals" /\ ret.kind = "ok"
    /\ DOMAIN ret.signals = SignalNames \ {"stoch_signal"}
    /\ ret.signals["volume_signal"].strength = 1
    /\ \A n \in DOMAIN ret.signals \ {"volume_signal"} :
          ret.signals[n].strength = 2
    /\ ret.score = 9773

\* the sub-signals whose derived value is absent on the latest row
AbsentSignals(df) ==
    {n \in SignalNames :
        \/ n = "rsi_signal" /\ isna(Cell(df, "rsi"))
        \/ n = "macd_signal"
              /\ (isna(Cell(df, "macd")) \/ isna(Cell(df, "macd_signal")))
        \/ n = "ma_signal"
              /\ (\/ isna(Cell(df, "sma_20")) \/ isna(Cell(df, "sma_50"))
                  \/ isna(Cell(df, "sma_200")))
        \/ n = "bb_signal"
              /\ (isna(Cell(df, "bb_upper")) \/ isna(Cell(df, "bb_lower")))
        \/ n = "volume_signal" /\ isna(Cell(df, "volume_sma_20"))
        \/ n = "stoch_signal"
              /\ (isna(Cell(df, "stoch_k")) \/ isna(Cell(df, "stoch_d")))
        \/ n = "trend_signal" /\ df.rows < 20}

\* C18: absent sub-signals are left out of numerator and denominator of
\* the technical score: the score is the rescale over the sub-signals whose
\* derived value is there on the latest row (50 when there is none).
C18_AbsentSignalsExcluded ==
    (op.name = "generate_technical_signals" /\ ret.kind = "ok") =>
        LET others == (DOMAIN ret.signals \cap SignalNames)
                         \ AbsentSignals(op.df)
        IN  IF others = {} THEN ret.score = 5000
            ELSE RescaledToTwoDecimals(ret.score,
                                       RescaleNum(ret.signals, others),
                                       RescaleDen(others))

\* MACD on the signal line at the previous and at the latest bar
MacdFlatCall ==
    /\ op.name = "_analyze_macd" /\ Returned
    /\ ~isna(op.df.latest["macd"]) /\ ~isna(op.df.prev_macd)
    /\ op.df.latest["macd"] = op.df.latest["macd_signal"]
    /\ op.df.prev_macd = op.df.prev_macd_signal

\* C19 as the specification states it: when MACD equals the signal line at
\* both the previous and the latest bar, _analyze_macd classifies the bar
\* as a crossover (strength of magnitude 2, crossover field set).
C19_AsStated ==
    MacdFlatCall =>
        /\ ret.result.strength \in {-2, 2}
        /\ ret.result.crossover \in {"bullish", "bearish"}

\* C19: when MACD equals the signal line at both the previous and the
\* latest bar, _analyze_macd reports no crossover: the latest MACD is
\* neither above nor below the signal, so the result is bearish with
\* strength -1 and no crossover field value.
C19_FlatMacdIsNoCrossover ==
    MacdFlatCall =>
        /\ ret.result.strength = -1
        /\ ret.result.signal = "bearish"
        /\ ret.result.crossover = "None"

\* both bars on the signal line, at different levels
C19_Witness ==
    /\ MacdFlatCall
    /\ op.df.rows = 250
    /\ op.df.latest["macd"] = 1 /\ op.df.prev_macd = 0
    /\ ret.result.strength = -1

\* C20: _analyze_trend over the trailing 20 bars, trend = (last close -
\* first close) / 20 as a percentage of the window's mean close, returns 2
\* when trend >= 1%, 1 when 0.2% <= trend < 1%, -2 when trend <= -1%, -1
\* when -1% < trend <= -0.2%, neutral 0 otherwise, and neutral 0 with fewer
\* than 20 bars.
C20_TrendClassification ==
    (op.name = "_analyze_trend" /\ Returned) =>
        LET df == op.df
            strength == ret.result.strength
            \* trend in percent = 100 * rise / (20 * mean); compared with
            \* c/10 percent by cross-multiplication (mean > 0)
            rise == df.Close - df.first_close
            AtLeast(c10) == 1000 * rise >= c10 * 20 * df.mean_close
            AtMost(c10) == 1000 * rise <= c10 * 20 * df.mean_close
        IN  IF df.rows < 20 THEN strength = 0
            ELSE /\ AtLeast(10) => strength = 2
                 /\ (AtLeast(2) /\ ~AtLeast(10)) => strength = 1
                 /\ AtMost(-10) => strength = -2
                 /\ (AtMost(-2) /\ ~AtMost(-10)) => strength = -1
                 /\ (~AtLeast(2) /\ ~AtMost(-2)) => strength = 0

\* C21: with both bands present _analyze_bollinger_bands returns 2 when
\* price < lower band, -2 when price > upper band, 1 when the price is
\* inside the bands and below the middle band, -1 in every remaining case;
\* with the upper or the lower band missing it returns neutral 0.
C21_BollingerClassification ==
    (op.name = "_analyze_bollinger_bands" /\ Returned) =>
        LET price == op.df.Close
            upper == Cell(op.df, "bb_upper")
            middle == Cell(op.df, "bb_middle")
            lower == Cell(op.df, "bb_lower")
            r == ret.result
        IN  IF isna(upper) \/ isna(lower)
            THEN r.strength = 0 /\ r.signal = "neutral"
            ELSE IF price < lower THEN r.strength = 2
            ELSE IF price > upper THEN r.strength = -2
            ELSE IF ~isna(middle) /\ price < middle THEN r.strength = 1
            ELSE r.strength = -1

\* the price sits on the middle band, inside the bands: bearish -1
C21_Witness ==
    /\ op.name = "_analyze_bollinger_bands" /\ Returned
    /\ op.df.cols = DerivedCols
    /\ op.df.latest["bb_upper"] = 110 /\ op.df.latest["bb_middle"] = 100
    /\ op.df.latest["bb_lower"] = 90
    /\ ret.result.strength = -1

\* C22: the stochastic signal of generate_technical_signals is 1 whenever
\* %K < 20, -1 whenever %K > 80 and neutral 0 otherwise, and it is absent
\* exactly when the oscillator was not computed (no stoch_k column).
C22_AsStated ==
    (op.name = "generate_technical_signals" /\ ret.kind = "ok") =>
        LET k == Cell(op.df, "stoch_k")
        IN  /\ ("stoch_signal" \in DOMAIN ret.signals)
                <=> HasCol(op.df, "stoch_k")
            /\ HasCol(op.df, "stoch_k") =>
                ret.signals["stoch_signal"].strength =
                    IF LT(k, 20) THEN 1 ELSE IF GT(k, 80) THEN -1 ELSE 0

\* C22 (amended): the stochastic signal is 1 when %K < 20 and -1 when
\* %K > 80 provided both %K and %D have a value on the latest row, and
\* neutral 0 otherwise, a missing %D included; it is absent exactly when
\* there is no stoch_k column.
C22_StochasticClassification ==
    (op.name = "generate_technical_signals" /\ ret.kind = "ok") =>
        LET k == Cell(op.df, "stoch_k")
            d == Cell(op.df, "stoch_d")
        IN  /\ ("stoch_signal" \in DOMAIN ret.signals)
                <=> HasCol(op.df, "stoch_k")
            /\ HasCol(op.df, "stoch_k") =>
                ret.signals["stoch_signal"].strength =
                    IF isna(k) \/ isna(d) THEN 0
                    ELSE IF k < 20 THEN 1 ELSE IF k > 80 THEN -1 ELSE 0

\* %K is 19 with no %D yet on the latest row: the signal is neutral
C22_Witness ==
    /\ op.name = "generate_technical_signals" /\ ret.kind = "ok"
    /\ HasCol(op.df, "stoch_k")
    /\ Cell(op.df, "stoch_k") = 19 /\ Cell(op.df, "stoch_d") = NaN
    /\ ret.signals["stoch_signal"].strength = 0

\* the strength of a signal dict has the sign its direction names
SignMatches(s) ==
    /\ s.signal \in {"bullish", "bearish", "neutral"}
    /\ s.signal = "bullish" => s.strength > 0
    /\ s.signal = "bearish" => s.strength < 0
    /\ s.signal = "neutral" => s.strength = 0

\* C23: in every signal that generate_technical_signals or
\* analyze_fundamentals returns, the sign of the strength matches the
\* direction: bullish has strength > 0, bearish < 0, neutral exactly 0.
C23_StrengthSignMatchesDirection ==
    (op.name \in {"generate_technical_signals", "analyze_fundamentals"}
        /\ ret.kind = "ok") =>
        \A n \in DOMAIN ret.signals : SignMatches(ret.signals[n])

\* a technical result that holds a bullish, a bearish and a neutral signal
C23_Witness ==
    /\ op.name = "generate_technical_signals" /\ ret.kind = "ok"
    /\ \E a, b, c \in DOMAIN ret.signals :
        /\ ret.signals[a].signal = "bullish" /\ ret.signals[a].strength > 0
        /\ ret.signals[b].signal = "bearish" /\ ret.signals[b].strength < 0
        /\ ret.signals[c].signal = "neutral" /\ ret.signals[c].strength = 0

MetricOps ==
    {"_analyze_pe_ratio", "_analyze_profit_margin", "_analyze_debt_to_equity",
     "_analyze_growth_metric", "_analyze_profitability_metric",
     "_analyze_current_ratio"}

LowerIsBetter == {"pe_ratio", "debt_to_equity"}

\* the strengths a metric may get, -2 kept for a growth metric in decline
StrengthInRange(metric, value, s) ==
    /\ s \in {2, 1, 0, -1, -2}
    /\ s = -2 => (metric \in GrowthMetrics /\ value # None /\ value < 0)

\* the strength s given to value v is never beaten the wrong way by the
\* strength of any other value w out of vals
MonotoneAt(metric, v, s, vals) ==
    \A w \in vals :
        LET t == ClassifyMetric(metric, w).strength
        IN  IF metric \in LowerIsBetter
            THEN (v < w => s >= t) /\ (w < v => t >= s)
            ELSE (v < w => s <= t) /\ (w < v => t <= s)

\* C24: each fundamental metric is classified monotonically, lower is
\* better for P/E and debt/equity and higher is better for the other
\* seven, over all values; the strength is in {2, 1, 0, -1} and -2 is
\* given only to revenue growth and earnings growth in decline.
C24_AsStated ==
    (op.name \in MetricOps /\ Returned) =>
        /\ StrengthInRange(op.metric, op.value, ret.result.strength)
        /\ op.value # None =>
            MonotoneAt(op.metric, op.value, ret.result.strength,
                       MetricValues \ {None})

\* C24 (amended): the same, with P/E monotone over the positive values
\* only; a P/E of zero or below is neutral 0, below the 2 of a small
\* positive P/E.
C24_MetricMonotone ==
    (op.name \in MetricOps /\ Returned) =>
        /\ StrengthInRange(op.metric, op.value, ret.result.strength)
        /\ (op.metric = "pe_ratio" /\ op.value # None /\ op.value <= 0) =>
            ret.result.strength = 0
        /\ (op.value # None /\ (op.metric = "pe_ratio" => op.value > 0)) =>
            MonotoneAt(op.metric, op.value, ret.result.strength,
                       {w \in MetricValues \ {None} :
                            op.metric = "pe_ratio" => w > 0})

\* a negative P/E has been classified: neutral, while P/E 10 gets 2
C24_Witness ==
    /\ op.name = "_analyze_pe_ratio" /\ Returned
    /\ op.value = -3 /\ ret.result.strength = 0
    /\ ClassifyMetric("pe_ratio", 10).strength = 2

\* the nine metric weights as stated, in halves
StatedMetricWeights ==
    [pe_ratio |-> 4, profit_margin |-> 4, debt_to_equity |-> 3,
     revenue_growth |-> 4, return_on_equity |-> 4, return_on_assets |-> 3,
     current_ratio |-> 2, earnings_growth |-> 4, operating_margin |-> 3]

\* the dict without the keys outside ks
Restrict(data, ks) == [n \in DOMAIN data \cap ks |-> data[n]]

\* score (in hundredths) is 50 + 25 x S / W to the two decimals a score
\* is reported in: within half a hundredth of the quotient
IsRescaleOf(score, S, W) ==
    LET diff == score * W - 100 * (50 * W + 25 * S)
    IN  2 * (IF diff < 0 THEN -diff ELSE diff) <= W

\* C25: the fundamental score depends only on the metrics present among
\* the nine recognised ones: to the two decimals it is reported in it is
\* 50 + 25 x (sum of strength x weight) / (sum of weight) over the present
\* metrics, with weights P/E 2, profit margin 2, debt/equity 1.5, revenue
\* growth 2, ROE 2, ROA 1.5, current ratio 1, earnings growth 2, operating
\* margin 1.5; absent keys add nothing, and keys outside the nine never
\* change the score.
C25_FundamentalScoreFormula ==
    (op.name = "analyze_fundamentals" /\ ret.kind = "ok"
        /\ ~Falsy(op.fundamental_data)) =>
        LET data == op.fundamental_data
            present == DOMAIN data \cap DOMAIN StatedMetricWeights
            S == SumOver([n \in present |->
                            ret.signals[n].strength * StatedMetricWeights[n]],
                         present)
            W == SumOver([n \in present |-> StatedMetricWeights[n]], present)
        IN  /\ DOMAIN ret.signals = present
            /\ \A n \in present :
                ret.signals[n] = ClassifyMetric(n, data[n])
            /\ IF present = {} THEN ret.score = 5000
               ELSE IsRescaleOf(ret.score, S, W)
            /\ ret.score =
                analyze_fundamentals(
                    Restrict(data, DOMAIN StatedMetricWeights)).score

\* P/E 10 (strength 2, weight 2) and debt/equity 1.0 (strength 1, weight
\* 1.5) beside an eps key: 50 + 25 x 5.5 / 3.5 = 89.29
C25_Witness ==
    /\ op.name = "analyze_fundamentals" /\ ret.kind = "ok"
    /\ DOMAIN op.fundamental_data = {"pe_ratio", "debt_to_equity", "eps"}
    /\ op.fundamental_data["pe_ratio"] = 10
    /\ op.fundamental_data["debt_to_equity"] = 10
    /\ ret.score = 8929

\* the key holds a number
HasNumber(data, key) == key \in DOMAIN data /\ data[key] # None

\* C26: get_valuation_category returns 'value' for every map with P/E
\* below 15 and revenue growth below 0.05 (zero growth included), 'growth'
\* for every map where P/E is not below 15 and revenue growth exceeds
\* 0.15, and 'balanced' in every other case.
C26_ValuationCategory ==
    (op.name = "get_valuation_category" /\ Returned) =>
        LET data == op.fundamental_data
            pe_below == HasNumber(data, "pe_ratio") /\ data["pe_ratio"] < 15
            growth_low == HasNumber(data, "revenue_growth")
                            /\ data["revenue_growth"] < 5
            growth_high == HasNumber(data, "revenue_growth")
                            /\ data["revenue_growth"] > 15
        IN  ret.result =
                IF pe_below /\ growth_low THEN "value"
                ELSE IF ~pe_below /\ growth_high THEN "growth"
                ELSE "balanced"

\* the ids of the rows of the table that are ACTIVE
ActiveIds(d) ==
    {i \in 1..Len(d.holdings) : d.holdings[i].status = "ACTIVE"}

\* what get_active_holdings returned is exactly the ACTIVE rows, each once
ListsActive ==
    (op.name = "get_active_holdings" /\ Returned) =>
        /\ {ret.result[k].id : k \in 1..Len(ret.result)} = ActiveIds(db)
        /\ Len(ret.result) = Cardinality(ActiveIds(db))
        /\ \A k \in 1..Len(ret.result) :
                ret.result[k] = db.holdings[ret.result[k].id]

\* one step of the database: an add makes one new ACTIVE holding, a close
\* of an existing id takes that id out of the ACTIVE ones, a close of any
\* other id and every other step leave the table alone, and no CLOSED row
\* is ACTIVE afterwards
HoldingsStep ==
    /\ \A i \in 1..Len(db.holdings) :
            /\ i <= Len(db'.holdings)
            /\ db.holdings[i].status = "CLOSED" =>
                    db'.holdings[i].status = "CLOSED"
    /\ IF op = IdleOp /\ op'.name = "add_holding"
       THEN /\ Len(db'.holdings) = Len(db.holdings) + 1
            /\ ActiveIds(db') = ActiveIds(db) \cup {Len(db'.holdings)}
            /\ db'.holdings[Len(db'.holdings)].purchase_date
                    = op'.purchase_date
       ELSE IF op = IdleOp /\ op'.name = "close_holding"
       THEN IF op'.holding_id \in 1..Len(db.holdings)
            THEN /\ ActiveIds(db') = ActiveIds(db) \ {op'.holding_id}
                 /\ Len(db'.holdings) = Len(db.holdings)
            ELSE db' = db
       ELSE db' = db

\* C27: after any sequence of add_holding and close_holding calls,
\* get_active_holdings returns exactly the holdings added and not yet
\* closed: a holding is ACTIVE right after add_holding, is no longer
\* listed after close_holding on its id, a CLOSED holding never becomes
\* ACTIVE again, and close_holding on an id that does not exist changes
\* no holding.
C27_ActiveHoldings == [](ListsActive) /\ [][HoldingsStep]_vars

\* three holdings added, the first and the third closed, the second listed
C27_Witness ==
    /\ op.name = "get_active_holdings" /\ Returned
    /\ Len(db.holdings) = 3
    /\ db.holdings[1].status = "CLOSED" /\ db.holdings[3].status = "CLOSED"
    /\ ret.result = <<db.holdings[2]>>

\* the band a reported score (hundredths) falls in
BandOfReported(overall_score) ==
    IF overall_score >= 8000 THEN "STRONG BUY"
    ELSE IF overall_score >= 6500 THEN "BUY"
    ELSE IF overall_score >= 4500 THEN "HOLD"
    ELSE IF overall_score >= 3000 THEN "SELL"
    ELSE "STRONG SELL"

\* C28: in every result of score_stock the recommendation is the band the
\* reported overall_score (rounded to two decimals) falls in; a result
\* never reports 80.0 with BUY, 65.0 with HOLD, 45.0 with SELL or 30.0
\* with STRONG SELL.
C28_LabelMatchesReportedScore ==
    (op.name = "combine" /\ Returned) =>
        ret.result.recommendation = BandOfReported(ret.result.overall_score)

\* C29: for one list of scored results and the default thresholds the buy
\* candidates and the sell candidates are disjoint, and the HOLD-at-50
\* placeholder of a failed symbol is in neither.
C29_BuyAndSellDisjoint ==
    (op.name = "score_portfolio") =>
        LET fetch == Fetch(provider)
            buy == get_buy_recommendations(op.symbols, Len(op.symbols), fetch)
            sell == get_sell_recommendations(op.symbols, fetch)
        IN  /\ Range(buy) \cap Range(sell) = {}
            /\ Range(buy) \cup Range(sell) \subseteq Range(ret.result)
            /\ \A i \in 1..Len(ret.result) :
                    "error" \in DOMAIN ret.result[i] =>
                        /\ ret.result[i].overall_score = 5000
                        /\ ret.result[i].recommendation = "HOLD"
                        /\ ret.result[i] \notin Range(buy) \cup Range(sell)

\* a batch with a buy candidate, a sell candidate and a placeholder
C29_Witness ==
    /\ op.name = "score_portfolio" /\ Len(op.symbols) = 3
    /\ \E i \in 1..3 : "error" \in DOMAIN ret.result[i]
    /\ get_buy_recommendations(op.symbols, 3, Fetch(provider)) # <<>>
    /\ get_sell_recommendations(op.symbols, Fetch(provider)) # <<>>

\* C30: the technical score returned by generate_technical_signals never
\* reaches the ends of the scale: the volume and the stochastic signal have
\* strength at most 1 in magnitude and the six other signals always
\* contribute, so the score is at least 2.27 and at most 97.73.
C30_TechnicalScoreInsideScale ==
    (op.name = "generate_technical_signals" /\ ret.kind = "ok") =>
        /\ 227 <= ret.score /\ ret.score <= 9773
        /\ SignalNames \ {"stoch_signal"} \subseteq DOMAIN ret.signals
        /\ \A n \in DOMAIN ret.signals \cap {"volume_signal", "stoch_signal"} :
                ret.signals[n].strength \in {-1, 0, 1}

\* every signal at its most bearish and no stochastic signal: 2.27
C30_Witness ==
    /\ op.name = "generate_technical_signals" /\ ret.kind = "ok"
    /\ ret.score = 227
    /\ "stoch_signal" \notin DOMAIN ret.signals
    /\ ret.signals["volume_signal"].strength = -1

=============================================================================
